---- MODULE Spec2Model ----
(***************************************************************************)
(* A model of the Discord chat exporter's content script (src/content.js): *)
(* the scroll/collection controller, the message extractor with its user   *)
(* cache, the image cache, the two renderers and the progress checkpoints  *)
(* of an export run.                                                       *)
(*                                                                         *)
(* The chat view is a document of message elements in document order; the  *)
(* element at position k carries the id k.  Only a window of the document  *)
(* is mounted at a time.  The controller only ever scrolls forward in its  *)
(* main loop (content.js:964), so the window only moves forward there.     *)
(* Percent values are kept in hundredths (2007 is 20.07) so that the       *)
(* fractions the code computes stay exact.                                 *)
(***************************************************************************)
EXTENDS Integers, Sequences, FiniteSets, TLC

VARIABLES
  doc,                \* the message elements of the channel, in document order
  mountedFrom,        \* position of the first mounted element
  windowSize,         \* how many elements the view keeps mounted
  scroller,           \* [found, scrollTop, scrollHeight, clientHeight]
  startFromId,        \* selectedMessageId handed to the run (NoId: none)
  endAtId,            \* selectedEndMessageId handed to the run (NoId: none)
  options,            \* exportOptions
  pc,                 \* position of the run
  userCache,          \* [avatars, colors, lastUsername]
  collectedMessages,  \* the Map of the run, as its values in insertion order
  noChangeCount,
  foundStartMessage,
  foundEndMessage,
  reachedBottom,
  scrollAttempts,
  scrollUpAttempts,
  lastScrollTop,
  percent,            \* last percent passed to the progress sink, in hundredths
  scanned,            \* history: ids the scan loop has enumerated
  extracted,          \* history: ids extractMessageData was invoked for
  dropped,            \* history: ids extractMessageData returned null for
  reseen,             \* history: a scan met an id that was already stored
  stallRun,           \* history: consecutive scroll steps with all four stall conditions
  topExhausted,       \* history: the scroll-to-top phase ended on its attempt cap
  imageCache,         \* the Map url -> base64, as its entries in insertion order
  inFlight,           \* url -> number of getCachedImage calls awaiting their fetch
  readKeys,           \* history: urls a call has answered from the cache
  insertions,         \* history: urls in the order they entered the cache since the last clear
  messages,           \* the sequence handed to the renderer
  md,                 \* the Markdown document, as its lines
  pdf,                \* the PDF document, as its rendered message blocks
  format,             \* "pdf" or "markdown"
  urlArray,           \* the urls to prefetch
  prefetchIndex,      \* i of the prefetch loop
  renderIndex,        \* i of the PDF render loop
  lastUsername,       \* lastUsername of the PDF render loop
  result,             \* what the export returned (<<>>: not yet)
  settled,            \* how the getCachedImage call that settled last ended (<<>>: none yet)
  failedUrls,         \* history: the urls whose fetch has failed since the pass began
  renderPasses,       \* history: how many times generatePDFContent was entered
  callerOptions,      \* the options record the caller passes to the export
  via,                \* who started the export: the "popup" message or the "panel" button
  isExporting,
  response,           \* what sendResponse was called with (<<>>: not called)
  completion,         \* the exportComplete message (<<>>: not sent)
  artifact,           \* the print window or the file download of the run (<<>>: none)
  selectedMessageId,
  selectedEndMessageId,
  isSelectionMode,
  selectionType,      \* window._selectionType ("": null)
  listeners,          \* the capture listeners of selection mode registered on document
  panelVisible,
  lastEvents,         \* history: the last two events the page handled, oldest first
  second              \* a second export request on the same page: [pc, entry, format]

collectVars == <<doc, mountedFrom, windowSize, scroller, startFromId, endAtId, options,
                 pc, userCache, collectedMessages, noChangeCount, foundStartMessage,
                 foundEndMessage, reachedBottom, scrollAttempts, scrollUpAttempts,
                 lastScrollTop, percent, scanned, extracted, dropped, reseen, stallRun,
                 topExhausted>>
\* the same without the position of the run and the progress sink
loopVars == <<doc, mountedFrom, windowSize, scroller, startFromId, endAtId, options,
              userCache, collectedMessages, noChangeCount, foundStartMessage,
              foundEndMessage, reachedBottom, scrollAttempts, scrollUpAttempts,
              lastScrollTop, scanned, extracted, dropped, reseen, stallRun, topExhausted>>
cacheVars == <<imageCache, inFlight, readKeys, insertions, settled, failedUrls>>
renderVars == <<messages, md, pdf>>
exportVars == <<format, urlArray, prefetchIndex, renderIndex, lastUsername, result,
                renderPasses>>
callVars == <<callerOptions, via, isExporting, response, completion, artifact>>
uiVars == <<selectedMessageId, selectedEndMessageId, isSelectionMode, selectionType,
            listeners, panelVisible, lastEvents>>
rivalVars == <<second>>

\* ---------------------------------------------------------------- bounds

MaxItems == 3
WindowSize == 2

\* ------------------------------------------------------ program constants

maxScrollAttempts == 500
maxNoChangeAttempts == 8
avatarSize == 128
BottomTolerance == 50
StuckDelta == 5
TopNear == 100
AuthorWalkLimit == 10
AvatarWalkLimit == 20

NoId == 0

Min(a, b) == IF a < b THEN a ELSE b
Abs(a) == IF a < 0 THEN 0 - a ELSE a
Pct(n) == n * 100

\* ------------------------------------------------------------- the view

\* A message element as the extractor sees it: the text of its own header
\* username ("" for a grouped message), the computed colour of that header, its
\* own avatar image, its time element, its content region (processed rich
\* fragment and plain text), its media images, its embed blocks, its reactions
\* and its reply preview (<<>>: none).
Element(h, c, a, html, txt, imgs, embs, rep) ==
  [header |-> h, headerColor |-> c, avatarSrc |-> a, datetime |-> "2024-01-01T00:00:00Z",
   html |-> html, text |-> txt, images |-> imgs, embedBlocks |-> embs,
   reactions |-> <<>>, reply |-> rep]

FooterOnlyBlock ==
  [title |-> "", description |-> "", author |-> "", fields |-> <<>>, footer |-> "foot",
   thumbnail |-> "", image |-> "", borderColor |-> "rgba(0, 0, 0, 0)"]

HeadA == Element("alice", "rgb(1, 2, 3)", "https://cdn.discordapp.com/avatars/1/a.png",
                 "<b>hi</b>", "hi", <<>>, <<>>, <<>>)
Cont  == Element("", "", "", "more", "more", <<>>, <<>>, <<>>)
Pic   == Element("", "", "", "", "", <<"https://cdn.discordapp.com/attachments/1/p.png">>, <<>>, <<>>)
Bare  == Element("", "", "", "", "", <<>>, <<FooterOnlyBlock>>, <<>>)

ItemKinds == {HeadA, Cont, Pic, Bare}

Positions == 1..Len(doc)
LastMounted == Min(mountedFrom + windowSize - 1, Len(doc))
\* document.querySelectorAll(SELECTORS.message): the mounted elements, in document order
Mounted == mountedFrom..LastMounted
\* document.getElementById(id)
getElementById(id) == IF id # NoId /\ id \in Mounted THEN id ELSE NoId
\* every element the message selector matches has an id with the prefix
getMessageId(k) == IF k \in Positions THEN k ELSE NoId
\* a.compareDocumentPosition(b) & DOCUMENT_POSITION_FOLLOWING
Following(a, b) == b > a

\* ------------------------------------------------------- the user cache

EmptyMap == [u \in {} |-> ""]
MapGet(m, k) == IF k \in DOMAIN m THEN m[k] ELSE ""
MapPut(m, k, v) == [x \in DOMAIN m \cup {k} |-> IF x = k THEN v ELSE m[x]]

\* userCache.reset()
ResetUserCache == [avatars |-> EmptyMap, colors |-> EmptyMap, lastUsername |-> ""]
\* userCache.setAvatar / setColor / getAvatar / getColor
setAvatar(c, username, url) ==
  IF username # "" THEN [c EXCEPT !.avatars = MapPut(c.avatars, username, url)] ELSE c
setColor(c, username, color) ==
  IF username # "" /\ color # "" THEN [c EXCEPT !.colors = MapPut(c.colors, username, color)] ELSE c
getAvatar(c, username) == MapGet(c.avatars, username)
getColor(c, username) == MapGet(c.colors, username)

\* ------------------------------------------------------- the extractor

\* the colour of a header counts unless it is the white or the transparent sentinel
HeaderColor(color) ==
  IF color # "" /\ color # "rgb(255, 255, 255)" /\ color # "rgba(0, 0, 0, 0)" THEN color ELSE ""

\* a walk back that goes on until it finds a header
RECURSIVE PrevAuthorUnbounded(_, _)
PrevAuthorUnbounded(k, attempts) ==
  IF k < mountedFrom THEN [username |-> "", color |-> ""]
  ELSE IF doc[k].header # ""
       THEN [username |-> doc[k].header, color |-> HeaderColor(doc[k].headerColor)]
       ELSE PrevAuthorUnbounded(k - 1, attempts + 1)

\* the walk over previousElementSibling: the nearest mounted element before k,
\* at most AuthorWalkLimit steps back, whose own header names an author
RECURSIVE PrevAuthor(_, _)
PrevAuthor(k, attempts) ==
  IF k < mountedFrom \/ attempts >= AuthorWalkLimit THEN [username |-> "", color |-> ""]
  ELSE IF doc[k].header # ""
       THEN [username |-> doc[k].header, color |-> HeaderColor(doc[k].headerColor)]
       ELSE PrevAuthor(k - 1, attempts + 1)

\* the avatar URL brought to the fixed size (the sources carry no query string)
SizedAvatar(src) == src \o "?size=" \o ToString(avatarSize)

RECURSIVE PrevAvatar(_, _)
PrevAvatar(k, attempts) ==
  IF k < mountedFrom \/ attempts >= AvatarWalkLimit THEN ""
  ELSE IF doc[k].avatarSrc # "" THEN SizedAvatar(doc[k].avatarSrc)
       ELSE PrevAvatar(k - 1, attempts + 1)

\* extractAvatar: the element's own avatar, else the cache, else the walk back
\* over at most AvatarWalkLimit siblings; [data, cache]
extractAvatar(k, data, cache) ==
  IF doc[k].avatarSrc # ""
  THEN [data |-> [data EXCEPT !.avatar = SizedAvatar(doc[k].avatarSrc)],
        cache |-> setAvatar(cache, data.username, SizedAvatar(doc[k].avatarSrc))]
  ELSE IF data.username # ""
  THEN LET cached == getAvatar(cache, data.username)
           found  == IF cached # "" THEN cached ELSE PrevAvatar(k - 1, 0)
       IN [data |-> [data EXCEPT !.avatar = found],
           cache |-> IF cached = "" /\ found # "" THEN setAvatar(cache, data.username, found)
                     ELSE cache]
  ELSE [data |-> data, cache |-> cache]

isGifUrl(url) == url \in {"https://cdn.discordapp.com/attachments/1/g.gif"}
getStaticImageUrl(url) ==
  IF url = "https://cdn.discordapp.com/attachments/1/g.gif"
  THEN "https://cdn.discordapp.com/attachments/1/g.png?format=png" ELSE url

\* extractImages: one record per media image
RECURSIVE ImagesFrom(_, _)
ImagesFrom(srcs, i) ==
  IF i > Len(srcs) THEN <<>>
  ELSE <<[url |-> srcs[i], isGif |-> isGifUrl(srcs[i]),
          staticUrl |-> IF isGifUrl(srcs[i]) THEN getStaticImageUrl(srcs[i]) ELSE srcs[i]]>>
       \o ImagesFrom(srcs, i + 1)
extractImages(k) == ImagesFrom(doc[k].images, 1)

\* an extractor of embeds that returns every record it built
extractEmbedDataKeepAll(block, opts) ==
  <<[title |-> block.title, description |-> block.description,
     author |-> block.author, fields |-> block.fields, footer |-> block.footer,
     thumbnail |-> IF opts.includeImages THEN block.thumbnail ELSE "",
     image |-> IF opts.includeImages THEN block.image ELSE "",
     color |-> IF block.borderColor # "" /\ block.borderColor # "rgba(0, 0, 0, 0)"
               THEN block.borderColor ELSE ""]>>

\* extractEmbedData: <<>> for a block without title, description, field and image
extractEmbedData(block, opts) ==
  LET embed == [title |-> block.title, description |-> block.description,
                author |-> block.author, fields |-> block.fields, footer |-> block.footer,
                thumbnail |-> IF opts.includeImages THEN block.thumbnail ELSE "",
                image |-> IF opts.includeImages THEN block.image ELSE "",
                color |-> IF block.borderColor # "" /\ block.borderColor # "rgba(0, 0, 0, 0)"
                          THEN block.borderColor ELSE ""]
  IN IF embed.title = "" /\ embed.description = "" /\ Len(embed.fields) = 0 /\ embed.image = ""
     THEN <<>> ELSE <<embed>>

RECURSIVE EmbedsFrom(_, _, _)
EmbedsFrom(blocks, i, opts) ==
  IF i > Len(blocks) THEN <<>>
  ELSE extractEmbedData(blocks[i], opts) \o EmbedsFrom(blocks, i + 1, opts)
\* extractEmbeds
extractEmbeds(k, opts) == EmbedsFrom(doc[k].embedBlocks, 1, opts)

\* an extractor that returns every record it built
KeepEmpty(data) == <<data>>

\* the drop rule at the end of extractMessageData: null (<<>>) for a record without
\* content, images, embeds and author
DropEmpty(data) ==
  IF data.content = "" /\ Len(data.images) = 0 /\ Len(data.embeds) = 0 /\ data.username = ""
  THEN <<>> ELSE <<data>>

\* extractMessageData(messageEl, options) for the element at position k, with the
\* user cache as it stands: [data |-> <<>> (null) or <<record>>, cache |-> the cache after]
extractMessageData(k, cache, opts) ==
  LET el == doc[k]
      \* the author: own header, else the cache's last author, else the walk back
      walked == PrevAuthor(k - 1, 0)
      username == IF el.header # "" THEN el.header
                  ELSE IF cache.lastUsername # "" THEN cache.lastUsername
                  ELSE walked.username
      color0 == IF el.header # "" THEN HeaderColor(el.headerColor)
                ELSE IF cache.lastUsername # "" THEN getColor(cache, cache.lastUsername)
                ELSE walked.color
      cache1 == IF username # ""
                THEN setColor([cache EXCEPT !.lastUsername = username], username, color0)
                ELSE cache
      color == IF username # "" /\ color0 = "" THEN getColor(cache1, username) ELSE color0
      base == [id |-> getMessageId(k), username |-> username, usernameColor |-> color,
               avatar |-> "", timestamp |-> "", content |-> el.html, contentText |-> el.text,
               images |-> <<>>, attachments |-> <<>>, reactions |-> <<>>, embeds |-> <<>>,
               replyTo |-> el.reply]
      av == IF opts.includeAvatars THEN extractAvatar(k, base, cache1)
            ELSE [data |-> base, cache |-> cache1]
      data == [av.data EXCEPT
                 !.timestamp = IF opts.includeTimestamps THEN el.datetime ELSE "",
                 !.images = IF opts.includeImages THEN extractImages(k) ELSE <<>>,
                 !.embeds = extractEmbeds(k, opts),
                 !.reactions = IF opts.includeReactions THEN el.reactions ELSE <<>>]
  IN [data |-> DropEmpty(data), cache |-> av.cache]

\* --------------------------------------------------- the collection store

\* collectedMessages is a Map: its entries in insertion order
MapHas(m, key) == \E i \in 1..Len(m) : m[i].key = key
\* Map.set: a new key is appended, a known key keeps its place
MapSet(m, key, value) ==
  IF MapHas(m, key)
  THEN [i \in 1..Len(m) |-> IF m[i].key = key THEN [key |-> key, value |-> value] ELSE m[i]]
  ELSE Append(m, [key |-> key, value |-> value])
\* Array.from(map.values())
MapValues(m) == [i \in 1..Len(m) |-> m[i].value]
Ids(msgs) == [i \in 1..Len(msgs) |-> msgs[i].id]

\* what one pass of the scan loop reads and writes
ScanState ==
  [store |-> collectedMessages, cache |-> userCache, foundStart |-> foundStartMessage,
   foundEnd |-> foundEndMessage, reached |-> reachedBottom, scanned |-> scanned,
   extracted |-> extracted, dropped |-> dropped, reseen |-> reseen]

\* an unconditional push of the extracted record, as a list without a key would do
CollectNoDedupe(st, k) ==
  LET r == extractMessageData(k, st.cache, options)
  IN [st EXCEPT !.store = IF r.data = <<>> THEN @
                          ELSE Append(@, [key |-> getMessageId(k), value |-> r.data[1]]),
                !.cache = r.cache,
                !.extracted = @ \cup {getMessageId(k)},
                !.dropped = IF r.data = <<>> THEN @ \cup {getMessageId(k)} ELSE @]

\* an extraction of every item met, stored under its id whether the id is new or not
CollectOverwrite(st, k) ==
  LET r == extractMessageData(k, st.cache, options)
  IN [st EXCEPT !.store = IF r.data = <<>> THEN @
                          ELSE MapSet(@, getMessageId(k), r.data[1]),
                !.cache = r.cache,
                !.reseen = @ \/ MapHas(st.store, getMessageId(k)),
                !.extracted = @ \cup {getMessageId(k)},
                !.dropped = IF r.data = <<>> THEN @ \cup {getMessageId(k)} ELSE @]

\* if (!collectedMessages.has(msgId)) { extract; if (messageData) set(msgId, messageData) }
Collect(st, k) ==
  IF MapHas(st.store, getMessageId(k))
  THEN [st EXCEPT !.reseen = TRUE]
  ELSE LET r == extractMessageData(k, st.cache, options)
       IN [st EXCEPT !.store = IF r.data = <<>> THEN @
                               ELSE MapSet(@, getMessageId(k), r.data[1]),
                     !.cache = r.cache,
                     !.extracted = @ \cup {getMessageId(k)},
                     !.dropped = IF r.data = <<>> THEN @ \cup {getMessageId(k)} ELSE @]

\* a for-loop that stores the end item and goes on to the items after it
RECURSIVE ScanFromNoBreak(_, _, _, _)
ScanFromNoBreak(k, st0, startElement, endElement) ==
  IF k > LastMounted THEN st0
  ELSE
    LET msgId == getMessageId(k)
        st == [st0 EXCEPT !.scanned = @ \cup {msgId}]
    IN IF msgId = NoId THEN ScanFromNoBreak(k + 1, st0, startElement, endElement)
       ELSE IF endAtId # NoId /\ msgId = endAtId
       THEN ScanFromNoBreak(k + 1, [Collect(st, k) EXCEPT !.foundEnd = TRUE, !.reached = TRUE],
                            startElement, NoId)
       ELSE IF startFromId # NoId /\ msgId = startFromId
       THEN ScanFromNoBreak(k + 1, [Collect(st, k) EXCEPT !.foundStart = TRUE],
                            startElement, endElement)
       ELSE IF startFromId # NoId /\ startElement # NoId /\ ~Following(startElement, k)
       THEN ScanFromNoBreak(k + 1, st, startElement, endElement)
       ELSE IF startFromId # NoId /\ startElement = NoId /\ ~st.foundStart
       THEN ScanFromNoBreak(k + 1, st, startElement, endElement)
       ELSE ScanFromNoBreak(k + 1, Collect(st, k), startElement, endElement)

\* the for-loop over messageArray from position k on; startElement and endElement
\* are looked up once, before the loop
RECURSIVE ScanFrom(_, _, _, _)
ScanFrom(k, st0, startElement, endElement) ==
  IF k > LastMounted THEN st0
  ELSE
    LET msgId == getMessageId(k)
        st == [st0 EXCEPT !.scanned = @ \cup {msgId}]
    IN IF msgId = NoId THEN ScanFrom(k + 1, st0, startElement, endElement)
       ELSE IF endAtId # NoId /\ msgId = endAtId
       THEN [Collect(st, k) EXCEPT !.foundEnd = TRUE, !.reached = TRUE]
       ELSE IF endElement # NoId /\ Following(endElement, k)
       THEN [st EXCEPT !.foundEnd = TRUE, !.reached = TRUE]
       ELSE IF startFromId # NoId /\ msgId = startFromId
       THEN ScanFrom(k + 1, [Collect(st, k) EXCEPT !.foundStart = TRUE],
                     startElement, endElement)
       ELSE IF startFromId # NoId /\ startElement # NoId /\ ~Following(startElement, k)
       THEN ScanFrom(k + 1, st, startElement, endElement)
       ELSE IF startFromId # NoId /\ startElement = NoId /\ ~st.foundStart
       THEN ScanFrom(k + 1, st, startElement, endElement)
       ELSE ScanFrom(k + 1, Collect(st, k), startElement, endElement)

\* the sweep over every mounted element when the start was never observed
RECURSIVE SweepFrom(_, _)
SweepFrom(k, st) ==
  IF k > LastMounted THEN st
  ELSE IF getMessageId(k) = NoId THEN SweepFrom(k + 1, st)
  ELSE SweepFrom(k + 1, Collect(st, k))

\* ------------------------------------------------- scrollAndCollectMessages

\* the positions the view may mount from so that element id is mounted
WindowsWith(id) == {m \in Positions : m <= id /\ id <= m + windowSize - 1}

\* the stall bookkeeping with the at-bottom threshold never reached
NextNoChangeLate(count, isAtBottom, scrollDidNotMove, noNewMessages, scrollHeightUnchanged) ==
  IF scrollDidNotMove /\ noNewMessages
  THEN [count |-> count + 1, stop |-> count + 1 >= maxNoChangeAttempts + 3]
  ELSE [count |-> 0, stop |-> FALSE]

\* the stall bookkeeping with a counter that a step of progress does not reset
NextNoChangeKeepsCount(count, isAtBottom, scrollDidNotMove, noNewMessages, scrollHeightUnchanged) ==
  IF isAtBottom /\ scrollDidNotMove /\ noNewMessages /\ scrollHeightUnchanged
  THEN [count |-> count + 1, stop |-> count + 1 >= maxNoChangeAttempts]
  ELSE IF scrollDidNotMove /\ noNewMessages
  THEN [count |-> count + 1, stop |-> count + 1 >= maxNoChangeAttempts + 3]
  ELSE [count |-> count, stop |-> FALSE]

\* the stall bookkeeping after a scroll step: the counter after it and whether the
\* loop stops
NextNoChange(count, isAtBottom, scrollDidNotMove, noNewMessages, scrollHeightUnchanged) ==
  IF isAtBottom /\ scrollDidNotMove /\ noNewMessages /\ scrollHeightUnchanged
  THEN [count |-> count + 1, stop |-> count + 1 >= maxNoChangeAttempts]
  ELSE IF scrollDidNotMove /\ noNewMessages
  THEN [count |-> count + 1, stop |-> count + 1 >= maxNoChangeAttempts + 3]
  ELSE [count |-> 0, stop |-> FALSE]

\* a main loop that only ends on reachedBottom
LoopUncapped(attempts, reached) == ~reached

\* the condition of the main while loop
LoopContinues(attempts, reached) == attempts < maxScrollAttempts /\ ~reached
\* the condition of the scroll-to-top while loop
TopContinues(attempts) == attempts < maxScrollAttempts

\* Math.min(55, 20 + scrollAttempts * 35 / maxScrollAttempts), in hundredths
CollectProgress(attempts) ==
  Min(Pct(55), Pct(20) + (attempts * 35 * 100) \div maxScrollAttempts)
\* Math.min(15, 5 + scrollUpAttempts), in hundredths
TopProgress(attempts) == Pct(Min(15, 5 + attempts))

\* an entry that resets the user cache before it looks for the scroller
CollectNoScrollerAfterReset ==
  /\ pc = "collect"
  /\ ~scroller.found
  /\ pc' = "threw"
  /\ userCache' = ResetUserCache
  /\ UNCHANGED <<doc, mountedFrom, windowSize, scroller, startFromId, endAtId, options,
                 collectedMessages, noChangeCount, foundStartMessage,
                 foundEndMessage, reachedBottom, scrollAttempts, scrollUpAttempts,
                 lastScrollTop, percent, scanned, extracted, dropped, reseen, stallRun, topExhausted>>
  /\ UNCHANGED <<cacheVars, renderVars, exportVars, callVars, uiVars, rivalVars>>

\* getMessagesScroller() found nothing: the run throws before it touches anything
CollectNoScroller ==
  /\ pc = "collect"
  /\ ~scroller.found
  /\ pc' = "threw"
  /\ UNCHANGED <<doc, mountedFrom, windowSize, scroller, startFromId, endAtId, options,
                 userCache, collectedMessages, noChangeCount, foundStartMessage,
                 foundEndMessage, reachedBottom, scrollAttempts, scrollUpAttempts,
                 lastScrollTop, percent, scanned, extracted, dropped, reseen, stallRun, topExhausted>>
  /\ UNCHANGED <<cacheVars, renderVars, exportVars, callVars, uiVars, rivalVars>>

\* entry of the run up to its first wait: the cache reset, the locals, and either
\* the first top-scroll notification or the jump to the start element
CollectStart ==
  /\ pc = "collect"
  /\ scroller.found
  /\ userCache' = ResetUserCache
  /\ collectedMessages' = <<>>
  /\ noChangeCount' = 0
  /\ foundEndMessage' = FALSE
  /\ reachedBottom' = FALSE
  /\ scrollAttempts' = 0
  /\ scrollUpAttempts' = 0
  /\ IF startFromId = NoId
     THEN /\ percent' = <<Pct(5)>>
          /\ lastScrollTop' = scroller.scrollTop
          /\ foundStartMessage' = TRUE
          /\ pc' = "top"
          /\ UNCHANGED mountedFrom
     ELSE IF getElementById(startFromId) # NoId
     THEN \* startEl.scrollIntoView, then the settle wait
          /\ mountedFrom' \in WindowsWith(startFromId)
          /\ foundStartMessage' = TRUE
          /\ pc' = "scan"
          /\ UNCHANGED <<percent, lastScrollTop>>
     ELSE /\ foundStartMessage' = FALSE
          /\ pc' = "scan"
          /\ UNCHANGED <<percent, lastScrollTop, mountedFrom>>
  /\ UNCHANGED <<doc, windowSize, scroller, startFromId, endAtId, options, scanned,
                 extracted, dropped, reseen, stallRun, topExhausted>>
  /\ UNCHANGED <<cacheVars, renderVars, exportVars, callVars, uiVars, rivalVars>>

\* one pass of the scroll-to-top loop: scrollTop = 0, the wait, the check, the
\* second wait of the double check; t1 and t2 are where the view stands after each
TopAttempt(Tops) ==
  /\ pc = "top"
  /\ TopContinues(scrollUpAttempts)
  /\ \E t1 \in Tops, t2 \in Tops :
       LET near == t1 = 0 \/ Abs(t1 - lastScrollTop) < StuckDelta
           now == IF near THEN t2 ELSE t1
       IN /\ scroller' = [scroller EXCEPT !.scrollTop = now]
          /\ IF near /\ t2 < TopNear
             THEN /\ pc' = "settle"
                  /\ UNCHANGED <<lastScrollTop, scrollUpAttempts, percent>>
             ELSE /\ lastScrollTop' = now
                  /\ scrollUpAttempts' = scrollUpAttempts + 1
                  /\ percent' = <<TopProgress(scrollUpAttempts + 1)>>
                  /\ pc' = "top"
  /\ UNCHANGED <<doc, mountedFrom, windowSize, startFromId, endAtId, options, userCache,
                 collectedMessages, noChangeCount, foundStartMessage, foundEndMessage,
                 reachedBottom, scrollAttempts, scanned, extracted, dropped, reseen, stallRun,
                 topExhausted>>
  /\ UNCHANGED <<cacheVars, renderVars, exportVars, callVars, uiVars, rivalVars>>

\* the scroll-to-top loop ends on its attempt cap
TopExhausted ==
  /\ pc = "top"
  /\ ~TopContinues(scrollUpAttempts)
  /\ pc' = "settle"
  /\ topExhausted' = TRUE
  /\ UNCHANGED <<doc, mountedFrom, windowSize, scroller, startFromId, endAtId, options,
                 userCache, collectedMessages, noChangeCount, foundStartMessage,
                 foundEndMessage, reachedBottom, scrollAttempts, scrollUpAttempts,
                 lastScrollTop, percent, scanned, extracted, dropped, reseen, stallRun>>
  /\ UNCHANGED <<cacheVars, renderVars, exportVars, callVars, uiVars, rivalVars>>

\* the long wait after the scroll-to-top loop; the view has mounted what it shows now
TopSettle(Tops) ==
  /\ pc = "settle"
  /\ mountedFrom' \in Positions
  /\ \E t \in Tops : scroller' = [scroller EXCEPT !.scrollTop = t]
  /\ foundStartMessage' = TRUE
  /\ scrollUpAttempts' = 0
  /\ lastScrollTop' = 0
  /\ pc' = "scan"
  /\ UNCHANGED <<doc, windowSize, startFromId, endAtId, options, userCache,
                 collectedMessages, noChangeCount, foundEndMessage, reachedBottom,
                 scrollAttempts, percent, scanned, extracted, dropped, reseen, stallRun,
                 topExhausted>>
  /\ UNCHANGED <<cacheVars, renderVars, exportVars, callVars, uiVars, rivalVars>>

\* one pass of the main loop up to its scroll: the scan of the mounted elements
LoopScan ==
  /\ pc = "scan"
  /\ LoopContinues(scrollAttempts, reachedBottom)
  /\ scrollAttempts' = scrollAttempts + 1
  /\ LET st == ScanFrom(mountedFrom, ScanState, getElementById(startFromId),
                        getElementById(endAtId))
     IN /\ collectedMessages' = st.store
        /\ userCache' = st.cache
        /\ foundStartMessage' = st.foundStart
        /\ foundEndMessage' = st.foundEnd
        /\ reachedBottom' = st.reached
        /\ scanned' = st.scanned
        /\ extracted' = st.extracted
        /\ dropped' = st.dropped
        /\ reseen' = st.reseen
        /\ pc' = IF st.foundEnd THEN "after" ELSE "scroll"
  /\ UNCHANGED <<doc, mountedFrom, windowSize, scroller, startFromId, endAtId, options,
                 noChangeCount, scrollUpAttempts, lastScrollTop, percent, stallRun,
                 topExhausted>>
  /\ UNCHANGED <<cacheVars, renderVars, exportVars, callVars, uiVars, rivalVars>>

\* the main loop ends on its condition
LoopExit ==
  /\ pc = "scan"
  /\ ~LoopContinues(scrollAttempts, reachedBottom)
  /\ pc' = "after"
  /\ UNCHANGED <<doc, mountedFrom, windowSize, scroller, startFromId, endAtId, options,
                 userCache, collectedMessages, noChangeCount, foundStartMessage,
                 foundEndMessage, reachedBottom, scrollAttempts, scrollUpAttempts,
                 lastScrollTop, percent, scanned, extracted, dropped, reseen, stallRun,
                 topExhausted>>
  /\ UNCHANGED <<cacheVars, renderVars, exportVars, callVars, uiVars, rivalVars>>

\* the rest of the pass: the scroll forward, the wait (the view answers with its new
\* position t, height h and window m), the four stall conditions, the counter and
\* the progress notification
ScrollStep(Tops, Heights) ==
  /\ pc = "scroll"
  /\ \E t \in Tops, h \in Heights, m \in mountedFrom..Len(doc) :
       LET prevScrollTop == scroller.scrollTop
           prevScrollHeight == scroller.scrollHeight
           prevMessageCount == Len(collectedMessages)
           isAtBottom == t + scroller.clientHeight >= h - BottomTolerance
           scrollDidNotMove == Abs(t - prevScrollTop) < StuckDelta
           \* nothing inserts into the store between the two reads of its size
           noNewMessages == Len(collectedMessages) = prevMessageCount
           scrollHeightUnchanged == h = prevScrollHeight
           r == NextNoChange(noChangeCount, isAtBottom, scrollDidNotMove, noNewMessages,
                             scrollHeightUnchanged)
       IN /\ scroller' = [scroller EXCEPT !.scrollTop = t, !.scrollHeight = h]
          /\ mountedFrom' = m
          /\ noChangeCount' = r.count
          /\ stallRun' = IF isAtBottom /\ scrollDidNotMove /\ noNewMessages
                            /\ scrollHeightUnchanged
                         THEN stallRun + 1 ELSE 0
          /\ IF r.stop
             THEN /\ reachedBottom' = TRUE
                  /\ pc' = "after"
                  /\ UNCHANGED percent
             ELSE /\ percent' = <<CollectProgress(scrollAttempts)>>
                  /\ pc' = "scan"
                  /\ UNCHANGED reachedBottom
  /\ UNCHANGED <<doc, windowSize, startFromId, endAtId, options, userCache,
                 collectedMessages, foundStartMessage, foundEndMessage, scrollAttempts,
                 scrollUpAttempts, lastScrollTop, scanned, extracted, dropped, reseen,
                 topExhausted>>
  /\ UNCHANGED <<cacheVars, renderVars, exportVars, callVars, uiVars, rivalVars>>

\* after the loop: the sweep when a start was asked for and never observed, and the
\* return of the store's values
CollectReturn ==
  /\ pc = "after"
  /\ LET st == IF startFromId # NoId /\ ~foundStartMessage
               THEN SweepFrom(mountedFrom, ScanState) ELSE ScanState
     IN /\ collectedMessages' = st.store
        /\ userCache' = st.cache
        /\ extracted' = st.extracted
        /\ dropped' = st.dropped
        /\ reseen' = st.reseen
  /\ pc' = "returned"
  /\ UNCHANGED <<doc, mountedFrom, windowSize, scroller, startFromId, endAtId, options,
                 noChangeCount, foundStartMessage, foundEndMessage, reachedBottom,
                 scrollAttempts, scrollUpAttempts, lastScrollTop, percent, scanned,
                 stallRun, topExhausted>>
  /\ UNCHANGED <<cacheVars, renderVars, exportVars, callVars, uiVars, rivalVars>>

\* Array.from(collectedMessages.values()): what the run returns
Returned == MapValues(collectedMessages)

\* ------------------------------------------------------- the image cache

MAX_IMAGE_CACHE_SIZE == 200
PREFETCH_BATCH == 10
BATCH_SIZE == 50

\* how many entries short of full the cache starts, and how many urls it has not
\* seen
CacheSlack == 0
MaxNewUrls == 1

\* what the fetch, the blob and the FileReader make of a url
Base64(url) == "data:" \o url

KeySet(m) == {m[i].key : i \in 1..Len(m)}
\* imageCache.get(url): "" stands for undefined
CacheGet(m, url) == IF MapHas(m, url) THEN (CHOOSE e \in {m[i] : i \in 1..Len(m)} : e.key = url).value
                    ELSE ""

\* the url -> count bookkeeping of the calls that await their fetch
NoneInFlight == [u \in {} |-> 0]
InFlightCount == IF DOMAIN inFlight = {} THEN 0
                 ELSE LET RECURSIVE Sum(_)
                          Sum(S) == IF S = {} THEN 0
                                    ELSE LET u == CHOOSE x \in S : TRUE
                                         IN inFlight[u] + Sum(S \ {u})
                      IN Sum(DOMAIN inFlight)
Await(f, url) == [u \in DOMAIN f \cup {url} |-> IF u = url THEN (IF u \in DOMAIN f THEN f[u] + 1 ELSE 1)
                                                 ELSE f[u]]
Settle(f, url) == [u \in {x \in DOMAIN f : x # url \/ f[x] > 1} |-> IF u = url THEN f[u] - 1 ELSE f[u]]

\* an insertion that makes room by deleting the newest key
CacheInsertDropNewest(cache, url, base64) ==
  MapSet(IF Len(cache) >= MAX_IMAGE_CACHE_SIZE THEN SubSeq(cache, 1, Len(cache) - 1) ELSE cache,
         url, base64)

\* the tail of getCachedImage after its awaits: at or over the limit the first key
\* of the Map is deleted, then the url is set
CacheInsert(cache, url, base64) ==
  MapSet(IF Len(cache) >= MAX_IMAGE_CACHE_SIZE THEN Tail(cache) ELSE cache, url, base64)

\* the urls whose entry is new after an insertion
Entered(cache, url, ins) ==
  LET kept == IF Len(cache) >= MAX_IMAGE_CACHE_SIZE THEN Tail(cache) ELSE cache
  IN IF MapHas(kept, url) THEN ins ELSE Append(ins, url)

\* a clearing that leaves the cache as it is
keepImageCache ==
  UNCHANGED <<imageCache, insertions>>

\* clearImageCache()
clearImageCache ==
  /\ imageCache' = <<>>
  /\ insertions' = <<>>

\* getCachedImage(url) up to its first await: null for no url, the cached value on
\* a hit, else the fetch is under way
getCachedImageCall(urls) ==
  \E url \in urls :
    /\ \/ /\ url = ""
          /\ UNCHANGED <<inFlight, readKeys>>
       \/ /\ url # "" /\ MapHas(imageCache, url)
          /\ readKeys' = readKeys \cup {url}
          /\ UNCHANGED inFlight
       \/ /\ url # "" /\ ~MapHas(imageCache, url)
          /\ InFlightCount < PREFETCH_BATCH
          /\ inFlight' = Await(inFlight, url)
          /\ UNCHANGED readKeys
    /\ UNCHANGED <<imageCache, insertions, settled, failedUrls, collectVars, renderVars,
                   exportVars, callVars, uiVars, rivalVars>>

\* how a call of getCachedImage ended: with the fetched data, with null, or with an
\* exception
Outcome(fetched, null, threw) == [fetched |-> fetched, null |-> null, threw |-> threw]

\* the fetch of a call for url answers: the entry is inserted and the call returns it
FetchDoneOf(url) ==
  /\ imageCache' = CacheInsert(imageCache, url, Base64(url))
  /\ insertions' = Entered(imageCache, url, insertions)
  /\ inFlight' = Settle(inFlight, url)
  /\ settled' = <<Outcome(TRUE, Base64(url) = "", FALSE)>>
  /\ UNCHANGED <<readKeys, failedUrls, collectVars, renderVars, exportVars, callVars, uiVars, rivalVars>>

\* the fetches answer in any order
FetchDone == \E url \in DOMAIN inFlight : FetchDoneOf(url)

\* the url in flight that the prefetch asked for first
FirstInFlight ==
  {urlArray[i] : i \in {j \in 1..Len(urlArray) :
                          /\ urlArray[j] \in DOMAIN inFlight
                          /\ \A k \in 1..(j - 1) : urlArray[k] \notin DOMAIN inFlight}}

\* the fetches that answer do so in the order they were asked for
FetchDoneInOrder == \E url \in FirstInFlight : FetchDoneOf(url)

\* a catch that still stores an entry for the url
FetchFailureCachesNull(cache, url) ==
  [cache |-> CacheInsert(cache, url, ""), outcome |-> Outcome(FALSE, TRUE, FALSE)]

\* the fetch, the blob or the reader of a call rejects: control goes to the catch,
\* past the eviction and the set; the catch logs and returns null
FetchFailure(cache, url) == [cache |-> cache, outcome |-> Outcome(FALSE, TRUE, FALSE)]

FetchFailed ==
  \E url \in DOMAIN inFlight :
    /\ imageCache' = FetchFailure(imageCache, url).cache
    /\ settled' = <<FetchFailure(imageCache, url).outcome>>
    /\ inFlight' = Settle(inFlight, url)
    /\ failedUrls' = failedUrls \cup {url}
    /\ UNCHANGED <<insertions, readKeys, collectVars, renderVars, exportVars, callVars,
                   uiVars, rivalVars>>

\* ------------------------------------------------------------ the renderers

\* x || d
OrDefault(x, d) == IF x = "" THEN d ELSE x
\* escapeHtml on the texts of the model
escapeHtml(text) == IF text = "a<b" THEN "a&lt;b" ELSE text
\* new Date(timestamp).toLocaleString() on the timestamps of the model
toLocaleString(ts) == IF ts = "2024-01-01T00:00:00Z" THEN "1/1/2024, 12:00:00 AM" ELSE "Invalid Date"
\* the textContent of a rich fragment of the model
textContent(html) == IF html = "<b>hi</b>" THEN "hi" ELSE html
\* (username || 'U').charAt(0).toUpperCase()
Initial(username) ==
  IF username = "alice" THEN "A" ELSE IF username = "bob" THEN "B" ELSE "U"
getChannelName == "general"

\* a header rule that never groups
neverSameUser(msg, last) == FALSE

\* the header-collapsing rule both renderers share
isSameUser(msg, last) == msg.username # "" /\ msg.username = last
\* a rule under which no message counts as a reply
hasReplyNever(msg) == FALSE

hasReply(msg) ==
  msg.replyTo # <<>> /\ (msg.replyTo[1].username # "" \/ msg.replyTo[1].content # "")
showHeader(msg, last) == ~isSameUser(msg, last) \/ hasReply(msg)

\* a line of the Markdown document: the message it belongs to (0: the preamble),
\* what it is, and its text (without the non-ASCII glyphs of the literals)
MdLine(of, role, text) == [of |-> of, role |-> role, text |-> text]
MdBlank(of) == MdLine(of, "blank", "")

MdPreamble ==
  <<MdLine(0, "title", "# " \o getChannelName), MdBlank(0),
    MdLine(0, "exported", "*Exported on 1/1/2024, 12:00:00 AM*"), MdBlank(0),
    MdLine(0, "rule", "---"), MdBlank(0)>>

MdReply(i, msg) ==
  IF hasReply(msg)
  THEN <<MdLine(i, "reply", "> Replying to **" \o OrDefault(msg.replyTo[1].username, "Unknown")
                            \o "**: " \o msg.replyTo[1].content), MdBlank(i)>>
  ELSE <<>>

MdHeader(i, msg, last, opts) ==
  IF ~isSameUser(msg, last) \/ hasReply(msg)
  THEN <<MdLine(i, "header",
                "**" \o OrDefault(msg.username, "Unknown") \o "**"
                \o (IF opts.includeTimestamps /\ msg.timestamp # ""
                    THEN " - " \o toLocaleString(msg.timestamp) ELSE "")), MdBlank(i)>>
  ELSE <<>>

MdContent(i, msg) ==
  IF msg.contentText # "" THEN <<MdLine(i, "content", msg.contentText), MdBlank(i)>> ELSE <<>>

RECURSIVE MdImages(_, _, _)
MdImages(i, imgs, k) ==
  IF k > Len(imgs) THEN <<>>
  ELSE (IF imgs[k].isGif
        THEN <<MdLine(i, "image", "**GIF**"), MdBlank(i),
               MdLine(i, "image", "[![GIF](" \o imgs[k].staticUrl \o ")](" \o imgs[k].url \o ")"),
               MdBlank(i),
               MdLine(i, "image", "> " \o imgs[k].url), MdBlank(i)>>
        ELSE <<MdLine(i, "image", "![image](" \o imgs[k].url \o ")"), MdBlank(i)>>)
       \o MdImages(i, imgs, k + 1)

RECURSIVE MdFields(_, _, _)
MdFields(i, fields, k) ==
  IF k > Len(fields) THEN <<>>
  ELSE <<MdLine(i, "embed", "> **" \o fields[k].name \o "**: " \o textContent(fields[k].value))>>
       \o MdFields(i, fields, k + 1)

MdEmbed(i, embed) ==
  <<MdLine(i, "embed", "> **[Embed]**")>>
  \o (IF embed.author # "" THEN <<MdLine(i, "embed", "> " \o embed.author)>> ELSE <<>>)
  \o (IF embed.title # "" THEN <<MdLine(i, "embed", "> **" \o embed.title \o "**")>> ELSE <<>>)
  \o (IF embed.description # ""
      THEN <<MdLine(i, "embed", "> " \o textContent(embed.description))>> ELSE <<>>)
  \o (IF Len(embed.fields) > 0
      THEN <<MdLine(i, "embed", ">")>> \o MdFields(i, embed.fields, 1) ELSE <<>>)
  \o (IF embed.thumbnail # ""
      THEN <<MdLine(i, "embed", ">"),
             MdLine(i, "embed", "> ![thumbnail](" \o embed.thumbnail \o ")")>> ELSE <<>>)
  \o (IF embed.image # ""
      THEN <<MdLine(i, "embed", ">"),
             MdLine(i, "embed", "> ![embed image](" \o embed.image \o ")")>> ELSE <<>>)
  \o (IF embed.footer # "" THEN <<MdLine(i, "embed", "> _" \o embed.footer \o "_")>> ELSE <<>>)
  \o <<MdBlank(i)>>

RECURSIVE MdEmbeds(_, _, _)
MdEmbeds(i, embeds, k) ==
  IF k > Len(embeds) THEN <<>> ELSE MdEmbed(i, embeds[k]) \o MdEmbeds(i, embeds, k + 1)

RECURSIVE MdReactions(_, _)
MdReactions(reactions, k) ==
  IF k > Len(reactions) THEN ""
  ELSE (IF k > 1 THEN " " ELSE "") \o reactions[k].emoji \o " (" \o ToString(reactions[k].count)
       \o ")" \o MdReactions(reactions, k + 1)

\* a tail that leaves the separator out under a collapsed header
MdTailGrouped(i, msg, last, opts) ==
  (IF ~isSameUser(msg, last) /\ opts.includeAvatars /\ msg.avatar # ""
   THEN <<MdLine(i, "avatar", "> Avatar: " \o msg.avatar), MdBlank(i)>> ELSE <<>>)
  \o (IF opts.includeReactions /\ Len(msg.reactions) > 0
      THEN <<MdLine(i, "reactions", "> Reactions: " \o MdReactions(msg.reactions, 1)),
             MdBlank(i)>> ELSE <<>>)
  \o (IF isSameUser(msg, last) THEN <<>> ELSE <<MdLine(i, "separator", "---"), MdBlank(i)>>)

\* the avatar line, the reactions line and the separator that ends every message
MdTail(i, msg, last, opts) ==
  (IF ~isSameUser(msg, last) /\ opts.includeAvatars /\ msg.avatar # ""
   THEN <<MdLine(i, "avatar", "> Avatar: " \o msg.avatar), MdBlank(i)>> ELSE <<>>)
  \o (IF opts.includeReactions /\ Len(msg.reactions) > 0
      THEN <<MdLine(i, "reactions", "> Reactions: " \o MdReactions(msg.reactions, 1)),
             MdBlank(i)>> ELSE <<>>)
  \o <<MdLine(i, "separator", "---"), MdBlank(i)>>

\* the body of messages.forEach for message i
MdMessage(i, msg, last, opts) ==
  MdReply(i, msg) \o MdHeader(i, msg, last, opts) \o MdContent(i, msg)
  \o (IF opts.includeImages /\ Len(msg.images) > 0 THEN MdImages(i, msg.images, 1) ELSE <<>>)
  \o MdEmbeds(i, msg.embeds, 1)
  \o MdTail(i, msg, last, opts)

RECURSIVE MdFrom(_, _, _, _)
MdFrom(msgs, i, last, opts) ==
  IF i > Len(msgs) THEN <<>>
  ELSE MdMessage(i, msgs[i], last, opts) \o MdFrom(msgs, i + 1, msgs[i].username, opts)

generateMarkdownContent(msgs, opts) == MdPreamble \o MdFrom(msgs, 1, "", opts)

\* the avatar slot of a PDF message block
PdfAvatar(msg, show, opts, cache) ==
  IF ~show THEN [kind |-> "spacer", src |-> ""]
  ELSE IF opts.includeAvatars /\ msg.avatar # ""
  THEN (IF CacheGet(cache, msg.avatar) # ""
        THEN [kind |-> "img", src |-> CacheGet(cache, msg.avatar)]
        ELSE [kind |-> "placeholder", src |-> Initial(msg.username)])
  ELSE IF opts.includeAvatars THEN [kind |-> "placeholder", src |-> Initial(msg.username)]
  ELSE [kind |-> "none", src |-> ""]

RECURSIVE PdfImgParts(_, _, _)
PdfImgParts(imgs, k, cache) ==
  IF k > Len(imgs) THEN <<>>
  ELSE (IF CacheGet(cache, imgs[k].staticUrl) # ""
        THEN <<[src |-> CacheGet(cache, imgs[k].staticUrl), gif |-> imgs[k].isGif,
                link |-> IF imgs[k].isGif THEN imgs[k].url ELSE ""]>>
        ELSE <<>>)
       \o PdfImgParts(imgs, k + 1, cache)

RECURSIVE PdfEmbedParts(_, _, _)
PdfEmbedParts(embeds, k, cache) ==
  IF k > Len(embeds) THEN <<>>
  ELSE <<[style |-> IF embeds[k].color # "" THEN "border-left-color: " \o embeds[k].color \o ";"
                    ELSE "",
          thumbnail |-> IF embeds[k].thumbnail # "" THEN CacheGet(cache, embeds[k].thumbnail) ELSE "",
          author |-> escapeHtml(embeds[k].author), title |-> escapeHtml(embeds[k].title),
          description |-> embeds[k].description, fields |-> embeds[k].fields,
          image |-> IF embeds[k].image # "" THEN CacheGet(cache, embeds[k].image) ELSE "",
          footer |-> escapeHtml(embeds[k].footer)]>>
       \o PdfEmbedParts(embeds, k + 1, cache)

\* the block pushed for one message: absent parts are <<>>
PdfMessage(msg, last, opts, cache) ==
  [avatarHtml |-> PdfAvatar(msg, showHeader(msg, last), opts, cache),
   replyHtml |-> IF hasReply(msg)
                 THEN <<[username |-> escapeHtml(OrDefault(msg.replyTo[1].username, "Unknown")),
                         content |-> escapeHtml(msg.replyTo[1].content)]>>
                 ELSE <<>>,
   headerHtml |-> IF showHeader(msg, last)
                  THEN <<[username |-> escapeHtml(OrDefault(msg.username, "Unknown")),
                          color |-> msg.usernameColor,
                          timestamp |-> IF opts.includeTimestamps /\ msg.timestamp # ""
                                        THEN toLocaleString(msg.timestamp) ELSE ""]>>
                  ELSE <<>>,
   content |-> msg.content,
   imagesHtml |-> IF opts.includeImages /\ Len(msg.images) > 0
                  THEN <<PdfImgParts(msg.images, 1, cache)>> ELSE <<>>,
   embedsHtml |-> PdfEmbedParts(msg.embeds, 1, cache),
   reactionsHtml |-> IF opts.includeReactions /\ Len(msg.reactions) > 0
                     THEN <<msg.reactions>> ELSE <<>>]

\* the render loop from message i (0-based, as in the code) up to message upto
RECURSIVE PdfFrom(_, _, _, _, _, _)
PdfFrom(msgs, i, upto, last, opts, cache) ==
  IF i > upto THEN <<>>
  ELSE <<PdfMessage(msgs[i + 1], last, opts, cache)>>
       \o PdfFrom(msgs, i + 1, upto, msgs[i + 1].username, opts, cache)

\* the keys the render loop hands to imageCache.get for one message: the avatar
\* under a shown header, the static url of every image, the thumbnail and the image
\* of every embed
PdfLookupsOf(msg, last, opts) ==
  (IF showHeader(msg, last) /\ opts.includeAvatars /\ msg.avatar # "" THEN {msg.avatar} ELSE {})
  \cup (IF opts.includeImages /\ Len(msg.images) > 0
        THEN {msg.images[k].staticUrl : k \in 1..Len(msg.images)} ELSE {})
  \cup {msg.embeds[k].thumbnail : k \in {j \in 1..Len(msg.embeds) : msg.embeds[j].thumbnail # ""}}
  \cup {msg.embeds[k].image : k \in {j \in 1..Len(msg.embeds) : msg.embeds[j].image # ""}}
\* and for every message of the loop
PdfLookups(msgs, opts) ==
  UNION {PdfLookupsOf(msgs[i], IF i = 1 THEN "" ELSE msgs[i - 1].username, opts) :
           i \in 1..Len(msgs)}

\* the first i >= from at which the loop reports progress and yields (i > 0 and
\* i % BATCH_SIZE = 0), or total when there is none
NextYield(from, total) ==
  LET at == {i \in from..(total - 1) : i > 0 /\ i % BATCH_SIZE = 0}
  IN IF at = {} THEN total ELSE CHOOSE i \in at : \A j \in at : i <= j

\* the insertion-ordered Set of urls to prefetch
SetAdd(seq, x) == IF x = "" \/ \E i \in 1..Len(seq) : seq[i] = x THEN seq ELSE Append(seq, x)
RECURSIVE AvatarUrls(_, _, _)
AvatarUrls(msgs, i, acc) ==
  IF i > Len(msgs) THEN acc ELSE AvatarUrls(msgs, i + 1, SetAdd(acc, msgs[i].avatar))
RECURSIVE StaticUrls(_, _, _)
StaticUrls(imgs, k, acc) ==
  IF k > Len(imgs) THEN acc ELSE StaticUrls(imgs, k + 1, SetAdd(acc, imgs[k].staticUrl))
RECURSIVE ImageUrls(_, _, _)
ImageUrls(msgs, i, acc) ==
  IF i > Len(msgs) THEN acc ELSE ImageUrls(msgs, i + 1, StaticUrls(msgs[i].images, 1, acc))
RECURSIVE EmbedMedia(_, _, _)
EmbedMedia(embeds, k, acc) ==
  IF k > Len(embeds) THEN acc
  ELSE EmbedMedia(embeds, k + 1, SetAdd(SetAdd(acc, embeds[k].thumbnail), embeds[k].image))
RECURSIVE EmbedUrls(_, _, _)
EmbedUrls(msgs, i, acc) ==
  IF i > Len(msgs) THEN acc ELSE EmbedUrls(msgs, i + 1, EmbedMedia(msgs[i].embeds, 1, acc))
\* a gathering that leaves the media of the embeds out
PrefetchUrlsNoEmbeds(msgs, opts) ==
  LET a == IF opts.includeAvatars THEN AvatarUrls(msgs, 1, <<>>) ELSE <<>>
  IN IF opts.includeImages THEN ImageUrls(msgs, 1, a) ELSE a

PrefetchUrls(msgs, opts) ==
  LET a == IF opts.includeAvatars THEN AvatarUrls(msgs, 1, <<>>) ELSE <<>>
      b == IF opts.includeImages THEN ImageUrls(msgs, 1, a) ELSE a
  IN EmbedUrls(msgs, 1, b)

\* a map over every url that is left, whatever the end of the batch
RECURSIVE StartBatchToEnd(_, _, _, _, _)
StartBatchToEnd(f, cache, urls, from, to) ==
  IF from > Len(urls) THEN f
  ELSE StartBatchToEnd(IF MapHas(cache, urls[from]) THEN f ELSE Await(f, urls[from]),
                       cache, urls, from + 1, to)

\* batch.map(url => getCachedImage(url)): every url of the batch that the cache
\* lacks is being fetched
RECURSIVE StartBatch(_, _, _, _, _)
StartBatch(f, cache, urls, from, to) ==
  IF from > to THEN f
  ELSE StartBatch(IF MapHas(cache, urls[from]) THEN f ELSE Await(f, urls[from]),
                  cache, urls, from + 1, to)

\* ------------------------------------------------------- the export run

MaxMsgs == 3
\* how many render passes a run of the model goes through
MaxPasses == 2

Failure(error) == [success |-> FALSE, error |-> error, messageCount |-> 0]
Success(n) == [success |-> TRUE, error |-> "", messageCount |-> n]

OptionKeys == {"includeImages", "includeAvatars", "includeTimestamps", "includeReactions"}
DEFAULT_EXPORT_OPTIONS ==
  [includeImages |-> TRUE, includeAvatars |-> TRUE, includeTimestamps |-> TRUE,
   includeReactions |-> TRUE]

\* a merge in which the defaults are spread last
SpreadDefaultsLast(a, b) ==
  [k \in DOMAIN a \cup DOMAIN b |-> IF k \in DOMAIN a THEN a[k] ELSE b[k]]

\* { ...a, ...b }: the keys of both, b's value where b has the key
Spread(a, b) ==
  [k \in DOMAIN a \cup DOMAIN b |-> IF k \in DOMAIN b THEN b[k] ELSE a[k]]

\* exportToPDF / exportToMarkdown up to the await of the collection: the options
\* are merged, the first notification is sent and the collection is called with the
\* boundaries selected now; startExport sets its flag before it calls the export
ExportStart ==
  /\ pc = "idle"
  /\ via = "panel" => ~isExporting
  /\ isExporting' = IF via = "panel" THEN TRUE ELSE isExporting
  /\ options' = Spread(DEFAULT_EXPORT_OPTIONS, callerOptions)
  /\ startFromId' = selectedMessageId
  /\ endAtId' = selectedEndMessageId
  /\ percent' = <<Pct(10)>>
  /\ pc' = "collect"
  /\ UNCHANGED <<doc, mountedFrom, windowSize, scroller, userCache, collectedMessages,
                 noChangeCount, foundStartMessage, foundEndMessage, reachedBottom,
                 scrollAttempts, scrollUpAttempts, lastScrollTop, scanned, extracted,
                 dropped, reseen, stallRun, topExhausted>>
  /\ UNCHANGED <<cacheVars, renderVars, exportVars, callerOptions, via, response,
                 completion, artifact, uiVars, rivalVars>>

\* the catch of the export: the collection threw, or it returned no message
ExportCatch ==
  /\ \/ /\ pc = "threw"
        /\ result' = <<Failure("Could not find messages scroller")>>
     \/ /\ pc = "returned" /\ Len(Returned) = 0
        /\ result' = <<Failure("No messages found to export")>>
  /\ pc' = "done"
  /\ UNCHANGED <<loopVars, percent, cacheVars, renderVars, format, urlArray, prefetchIndex,
                 renderIndex, lastUsername, renderPasses, callVars, uiVars, rivalVars>>

\* the collection returned messages: the processing notification
ExportProcess ==
  /\ pc = "returned" /\ Len(Returned) > 0
  /\ messages' = Returned
  /\ percent' = <<IF format = "pdf" THEN Pct(60) ELSE Pct(70)>>
  /\ pc' = "generate"
  /\ UNCHANGED <<loopVars, cacheVars, md, pdf, exportVars, callVars, uiVars, rivalVars>>

\* exportToMarkdown from generateMarkdownContent to its return: the document, the
\* notification, the download
GenerateMarkdown ==
  /\ pc = "generate" /\ format = "markdown"
  /\ md' = generateMarkdownContent(messages, options)
  /\ percent' = <<Pct(90)>>
  /\ artifact' = <<"download">>
  /\ result' = <<Success(Len(messages))>>
  /\ pc' = "done"
  /\ UNCHANGED <<loopVars, cacheVars, messages, pdf, format, urlArray, prefetchIndex,
                 renderIndex, lastUsername, renderPasses, callerOptions, via, isExporting,
                 response, completion, uiVars, rivalVars>>

\* generatePDFContent up to the await of its first batch: the cache is cleared,
\* the urls are gathered and the first batch is under way
PdfGather ==
  /\ pc = "generate" /\ format = "pdf"
  /\ clearImageCache
  /\ LET urls == PrefetchUrls(messages, options)
     IN /\ urlArray' = urls
        /\ inFlight' = StartBatch(inFlight, <<>>, urls, 1, Min(PREFETCH_BATCH, Len(urls)))
        /\ pc' = IF Len(urls) > 0 THEN "prefetch" ELSE "render"
  /\ prefetchIndex' = 0
  /\ renderIndex' = 0
  /\ lastUsername' = ""
  /\ pdf' = <<>>
  /\ renderPasses' = renderPasses + 1
  /\ failedUrls' = {}
  /\ UNCHANGED <<loopVars, percent, readKeys, settled, messages, md, format, result,
                 callVars, uiVars, rivalVars>>

\* Promise.all of the batch has settled: the notification, then the next batch or
\* the render loop
PrefetchBatchDone ==
  /\ pc = "prefetch"
  /\ DOMAIN inFlight = {}
  /\ percent' = <<Pct(50 + (prefetchIndex * 30) \div Len(urlArray))>>
  /\ prefetchIndex' = prefetchIndex + PREFETCH_BATCH
  /\ IF prefetchIndex + PREFETCH_BATCH < Len(urlArray)
     THEN /\ inFlight' = StartBatch(inFlight, imageCache, urlArray,
                                    prefetchIndex + PREFETCH_BATCH + 1,
                                    Min(prefetchIndex + 2 * PREFETCH_BATCH, Len(urlArray)))
          /\ pc' = "prefetch"
     ELSE /\ pc' = "render"
          /\ UNCHANGED inFlight
  /\ UNCHANGED <<loopVars, imageCache, readKeys, insertions, settled, failedUrls,
                 renderVars, format,
                 urlArray, renderIndex, lastUsername, result, renderPasses, callVars,
                 uiVars, rivalVars>>

\* the render loop from renderIndex to its next yield, or to its end and on through
\* the clearing of the cache, the return, the last notification of exportToPDF and
\* its print window; window.open answers with a window or, when the browser blocks
\* it, with null, and writing to null throws into the catch
RenderPdf ==
  /\ pc = "render"
  /\ LET total == Len(messages)
         stop == NextYield(renderIndex, total)
     IN IF stop < total
        THEN /\ pdf' = pdf \o PdfFrom(messages, renderIndex, stop, lastUsername, options,
                                      imageCache)
             /\ lastUsername' = messages[stop + 1].username
             /\ renderIndex' = stop + 1
             /\ percent' = <<Pct(80 + (stop * 20) \div total)>>
             /\ pc' = "render"
             /\ UNCHANGED <<imageCache, insertions, result, artifact>>
        ELSE /\ pdf' = pdf \o PdfFrom(messages, renderIndex, total - 1, lastUsername, options,
                                      imageCache)
             /\ lastUsername' = IF total > renderIndex THEN messages[total].username
                                ELSE lastUsername
             /\ renderIndex' = total
             /\ clearImageCache
             /\ percent' = <<Pct(90)>>
             /\ \E opened \in BOOLEAN :
                  IF opened
                  THEN /\ artifact' = <<"print window">>
                       /\ result' = <<Success(total)>>
                  ELSE /\ result' = <<Failure("Cannot read properties of null")>>
                       /\ UNCHANGED artifact
             /\ pc' = "done"
  /\ UNCHANGED <<loopVars, inFlight, readKeys, settled, failedUrls, messages, md, format,
                 urlArray,
                 prefetchIndex, renderPasses, callerOptions, via, isExporting, response,
                 completion, uiVars, rivalVars>>

\* a later PDF export of the same messages has reached its render pass
RenderAgain ==
  /\ pc = "done" /\ format = "pdf"
  /\ renderPasses < MaxPasses
  /\ percent' = <<Pct(60)>>
  /\ result' = <<>>
  /\ pc' = "generate"
  /\ UNCHANGED <<loopVars, cacheVars, renderVars, format, urlArray, prefetchIndex,
                 renderIndex, lastUsername, renderPasses, callVars, uiVars, rivalVars>>

\* a notification that always reports success
CompletionAlwaysOk(r) == [action |-> "exportComplete", success |-> TRUE, error |-> r.error]

\* { action: 'exportComplete', success: result.success, error: result.error }
CompletionOf(r) == [action |-> "exportComplete", success |-> r.success, error |-> r.error]

\* a startExport without its finally: the flag stays set after the run
ExportCompleteKeepsFlag ==
  /\ pc = "done"
  /\ response' = IF via = "popup" THEN <<result[1]>> ELSE response
  /\ completion' = <<CompletionOf(result[1])>>
  /\ pc' = "notified"
  /\ UNCHANGED <<loopVars, percent, cacheVars, renderVars, exportVars, callerOptions, via,
                 isExporting, artifact, uiVars, rivalVars>>

\* the export has resolved: the listener answers its caller with the result and
\* sends the completion message; startExport sends the message and drops its flag
ExportComplete ==
  /\ pc = "done"
  /\ response' = IF via = "popup" THEN <<result[1]>> ELSE response
  /\ completion' = <<CompletionOf(result[1])>>
  /\ isExporting' = IF via = "panel" THEN FALSE ELSE isExporting
  /\ pc' = "notified"
  /\ UNCHANGED <<loopVars, percent, cacheVars, renderVars, exportVars, callerOptions, via,
                 artifact, uiVars, rivalVars>>

\* ---------------------------------------------------------- the scrollers

\* a view that stands still at its end: it reports the same position and height
CalmTops == {0}
CalmHeights == {800}
\* a view that moves, grows and stalls at will
WildTops == {0, 100}
WildHeights == {900, 2000}

AllOptions == DEFAULT_EXPORT_OPTIONS

\* the option records a caller may pass: any of the four keys, each on or off
PartialOptions == UNION {[S -> BOOLEAN] : S \in SUBSET OptionKeys}
NoOptions == [k \in {} |-> TRUE]

NoCacheYet ==
  /\ imageCache = <<>>
  /\ inFlight = NoneInFlight
  /\ readKeys = {}
  /\ insertions = <<>>
  /\ settled = <<>>
  /\ failedUrls = {}

NoRenderYet ==
  /\ messages = <<>>
  /\ md = <<>>
  /\ pdf = <<>>
  /\ urlArray = <<>>
  /\ prefetchIndex = 0
  /\ renderIndex = 0
  /\ lastUsername = ""
  /\ result = <<>>
  /\ renderPasses = 0

\* no second request has arrived
NoSecond == [pc |-> "none", entry |-> "", format |-> ""]

\* no export was asked for
NoCallYet ==
  /\ callerOptions = NoOptions
  /\ via = "popup"
  /\ isExporting = FALSE
  /\ response = <<>>
  /\ completion = <<>>
  /\ artifact = <<>>
  /\ second = NoSecond

\* the page as the script finds it: nothing selected, selection mode off
NoSelectionYet ==
  /\ selectedMessageId = NoId
  /\ selectedEndMessageId = NoId
  /\ isSelectionMode = FALSE
  /\ selectionType = ""
  /\ listeners = {}
  /\ panelVisible = FALSE
  /\ lastEvents = <<>>

\* the locals of a run that has not begun
NoLoopYet ==
  /\ collectedMessages = <<>>
  /\ noChangeCount = 0
  /\ foundStartMessage = FALSE
  /\ foundEndMessage = FALSE
  /\ reachedBottom = FALSE
  /\ scrollAttempts = 0
  /\ scrollUpAttempts = 0
  /\ lastScrollTop = 0
  /\ percent = <<>>
  /\ scanned = {}
  /\ extracted = {}
  /\ dropped = {}
  /\ reseen = FALSE
  /\ stallRun = 0
  /\ topExhausted = FALSE

NoRunYet ==
  /\ userCache = ResetUserCache
  /\ NoLoopYet

\* ----------------------------------------- a collection run over a channel

Init ==
  /\ doc \in [1..MaxItems -> ItemKinds]
  /\ mountedFrom \in 1..MaxItems
  /\ windowSize = WindowSize
  /\ scroller = [found |-> TRUE, scrollTop |-> 0, scrollHeight |-> 800, clientHeight |-> 800]
  /\ startFromId \in 0..MaxItems
  /\ endAtId \in 0..MaxItems
  /\ options \in {[AllOptions EXCEPT !.includeImages = b] : b \in BOOLEAN}
  /\ pc = "collect"
  /\ NoRunYet
  /\ NoCacheYet
  /\ NoRenderYet
  /\ NoCallYet
  /\ NoSelectionYet
  /\ format = "pdf"

Next ==
  \/ CollectStart
  \/ TopAttempt(CalmTops)
  \/ TopSettle(CalmTops)
  \/ LoopScan
  \/ ScrollStep(CalmTops, CalmHeights)
  \/ CollectReturn

vars == <<collectVars, cacheVars, renderVars, exportVars, callVars, uiVars, rivalVars>>

Spec == Init /\ [][Next]_vars

\* ------------------------- a collection run over a view that moves at will

InitLoop ==
  /\ doc = <<HeadA>>
  /\ mountedFrom = 1
  /\ windowSize = WindowSize
  /\ scroller \in {[found |-> f, scrollTop |-> 0, scrollHeight |-> 900, clientHeight |-> 800] :
                     f \in BOOLEAN}
  /\ startFromId = NoId
  /\ endAtId = NoId
  /\ options = AllOptions
  /\ pc = "collect"
  /\ NoRunYet
  /\ NoCacheYet
  /\ NoRenderYet
  /\ NoCallYet
  /\ NoSelectionYet
  /\ format = "pdf"

NextLoop ==
  \/ CollectNoScroller
  \/ CollectStart
  \/ TopAttempt(WildTops)
  \/ TopExhausted
  \/ TopSettle(WildTops)
  \/ LoopScan
  \/ LoopExit
  \/ ScrollStep(WildTops, WildHeights)
  \/ CollectReturn

SpecLoop == InitLoop /\ [][NextLoop]_vars

\* --------------------------------------- calls on a cache that is nearly full

Url(i) == "https://cdn/" \o ToString(i)
Prefilled == MAX_IMAGE_CACHE_SIZE - CacheSlack
\* no url, the oldest url of the cache, and urls the cache has not seen
CallUrls == {"", Url(1)} \cup {Url(Prefilled + i) : i \in 1..MaxNewUrls}

InitCache ==
  /\ doc = <<HeadA>>
  /\ mountedFrom = 1
  /\ windowSize = WindowSize
  /\ scroller = [found |-> TRUE, scrollTop |-> 0, scrollHeight |-> 800, clientHeight |-> 800]
  /\ startFromId = NoId
  /\ endAtId = NoId
  /\ options = AllOptions
  /\ pc = "idle"
  /\ NoRunYet
  /\ NoRenderYet
  /\ format = "pdf"
  /\ imageCache = [i \in 1..Prefilled |-> [key |-> Url(i), value |-> Base64(Url(i))]]
  /\ insertions = [i \in 1..Prefilled |-> Url(i)]
  /\ inFlight = NoneInFlight
  /\ readKeys = {}
  /\ settled = <<>>
  /\ failedUrls = {}
  /\ NoCallYet
  /\ NoSelectionYet

NextCache ==
  \/ getCachedImageCall(CallUrls)
  \/ FetchDone
  \/ FetchFailed

SpecCache == InitCache /\ [][NextCache]_vars

\* ------------------------------------------- the renderers over drawn messages

AvatarOf(username) ==
  IF username = "alice" THEN SizedAvatar("https://cdn.discordapp.com/avatars/1/a.png")
  ELSE IF username = "bob" THEN SizedAvatar("https://cdn.discordapp.com/avatars/2/b.png")
  ELSE ""

Replies == {<<>>, <<[username |-> "bob", content |-> "a<b"]>>, <<[username |-> "", content |-> ""]>>}

\* the records the extractor builds, but for their id
MsgShapes ==
  {[id |-> NoId, username |-> u, usernameColor |-> "", avatar |-> AvatarOf(u),
    timestamp |-> "2024-01-01T00:00:00Z", content |-> "<b>hi</b>", contentText |-> "hi",
    images |-> imgs, attachments |-> <<>>, reactions |-> <<>>, embeds |-> <<>>,
    replyTo |-> r] :
     u \in {"", "alice", "bob"}, r \in Replies,
     imgs \in {<<>>, ImagesFrom(<<"https://cdn.discordapp.com/attachments/1/p.png">>, 1)}}

InitRender ==
  /\ doc = <<HeadA>>
  /\ mountedFrom = 1
  /\ windowSize = WindowSize
  /\ scroller = [found |-> TRUE, scrollTop |-> 0, scrollHeight |-> 800, clientHeight |-> 800]
  /\ startFromId = NoId
  /\ endAtId = NoId
  /\ options = AllOptions
  /\ pc = "generate"
  /\ NoRunYet
  /\ NoCacheYet
  /\ \E n \in 1..MaxMsgs : \E f \in [1..n -> MsgShapes] :
       messages = [i \in 1..n |-> [f[i] EXCEPT !.id = i]]
  /\ md = <<>>
  /\ pdf = <<>>
  /\ urlArray = <<>>
  /\ prefetchIndex = 0
  /\ renderIndex = 0
  /\ lastUsername = ""
  /\ result = <<>>
  /\ renderPasses = 0
  /\ NoCallYet
  /\ NoSelectionYet
  /\ format \in {"pdf", "markdown"}

NextRender ==
  \/ GenerateMarkdown
  \/ PdfGather
  \/ FetchDone
  \/ FetchFailed
  \/ PrefetchBatchDone
  \/ RenderPdf

SpecRender == InitRender /\ [][NextRender]_vars

\* ------------------------------- render passes with more urls than one batch

\* how many images the message of the pass carries
GalleryImages == 10

\* a message of alice with her avatar and GalleryImages images: with the avatar, one
\* url more than a prefetch batch takes
Gallery ==
  [id |-> 1, username |-> "alice", usernameColor |-> "", avatar |-> AvatarOf("alice"),
   timestamp |-> "2024-01-01T00:00:00Z", content |-> "<b>hi</b>", contentText |-> "hi",
   images |-> ImagesFrom([i \in 1..GalleryImages |-> Url(i)], 1), attachments |-> <<>>,
   reactions |-> <<>>, embeds |-> <<>>, replyTo |-> <<>>]

InitPrefetch ==
  /\ doc = <<HeadA>>
  /\ mountedFrom = 1
  /\ windowSize = WindowSize
  /\ scroller = [found |-> TRUE, scrollTop |-> 0, scrollHeight |-> 800, clientHeight |-> 800]
  /\ startFromId = NoId
  /\ endAtId = NoId
  /\ options = AllOptions
  /\ pc = "generate"
  /\ NoRunYet
  /\ NoCacheYet
  /\ messages = <<Gallery>>
  /\ md = <<>>
  /\ pdf = <<>>
  /\ urlArray = <<>>
  /\ prefetchIndex = 0
  /\ renderIndex = 0
  /\ lastUsername = ""
  /\ result = <<>>
  /\ renderPasses = 0
  /\ NoCallYet
  /\ NoSelectionYet
  /\ format = "pdf"

\* the fetches that answer do so in the order they were asked for; a fetch may fail
\* at any time
NextPrefetch ==
  \/ PdfGather
  \/ FetchDoneInOrder
  \/ FetchFailed
  \/ PrefetchBatchDone
  \/ RenderPdf
  \/ RenderAgain

SpecPrefetch == InitPrefetch /\ [][NextPrefetch]_vars

\* ------------------------------------------------------ a whole export run

\* the user cache as an earlier run has left it
UsedUserCache == setColor([ResetUserCache EXCEPT !.lastUsername = "bob"], "bob", "rgb(9, 9, 9)")

\* the callers of the export: the popup with the record of its four checkboxes or
\* with a record that leaves keys out, and the panel button with the defaults
Callers ==
  {[via |-> "popup", options |-> o] :
     o \in {NoOptions, [includeImages |-> FALSE]}}
  \cup {[via |-> "panel", options |-> DEFAULT_EXPORT_OPTIONS]}

InitExport ==
  /\ doc \in [1..MaxItems -> ItemKinds]
  /\ mountedFrom \in 1..MaxItems
  /\ windowSize = WindowSize
  /\ scroller \in {[found |-> f, scrollTop |-> 0, scrollHeight |-> 800, clientHeight |-> 800] :
                     f \in BOOLEAN}
  /\ startFromId = NoId
  /\ endAtId = NoId
  /\ options = AllOptions
  /\ pc = "idle"
  /\ userCache = UsedUserCache
  /\ NoLoopYet
  /\ NoCacheYet
  /\ NoRenderYet
  /\ \E c \in Callers : via = c.via /\ callerOptions = c.options
  /\ isExporting = FALSE
  /\ response = <<>>
  /\ completion = <<>>
  /\ artifact = <<>>
  /\ second = NoSecond
  /\ selectedMessageId \in 0..MaxItems
  /\ selectedEndMessageId = NoId
  /\ isSelectionMode = FALSE
  /\ selectionType = ""
  /\ listeners = {}
  /\ panelVisible = FALSE
  /\ lastEvents = <<>>
  /\ format \in {"pdf", "markdown"}

NextExport ==
  \/ ExportStart
  \/ CollectNoScroller
  \/ CollectStart
  \/ TopAttempt(CalmTops)
  \/ TopSettle(CalmTops)
  \/ LoopScan
  \/ ScrollStep(CalmTops, CalmHeights)
  \/ CollectReturn
  \/ ExportCatch
  \/ ExportProcess
  \/ GenerateMarkdown
  \/ PdfGather
  \/ FetchDone
  \/ FetchFailed
  \/ PrefetchBatchDone
  \/ RenderPdf
  \/ ExportComplete

SpecExport == InitExport /\ [][NextExport]_vars


\* ------------------------------------ export runs under every options record

\* the popup's caller sends any record over the four keys, each key present or
\* left out; the channel has messages or only items that are dropped
InitOptions ==
  /\ doc \in {<<HeadA, Pic, Cont>>, <<Bare, Bare, Bare>>}
  /\ mountedFrom \in 1..2
  /\ windowSize = WindowSize
  /\ scroller \in {[found |-> f, scrollTop |-> 0, scrollHeight |-> 800, clientHeight |-> 800] :
                     f \in BOOLEAN}
  /\ startFromId = NoId
  /\ endAtId = NoId
  /\ options = AllOptions
  /\ pc = "idle"
  /\ userCache = ResetUserCache
  /\ NoLoopYet
  /\ NoCacheYet
  /\ NoRenderYet
  /\ via = "popup"
  /\ callerOptions \in PartialOptions
  /\ isExporting = FALSE
  /\ response = <<>>
  /\ completion = <<>>
  /\ artifact = <<>>
  /\ second = NoSecond
  /\ selectedMessageId \in {NoId, 1}
  /\ selectedEndMessageId = NoId
  /\ isSelectionMode = FALSE
  /\ selectionType = ""
  /\ listeners = {}
  /\ panelVisible = FALSE
  /\ lastEvents = <<>>
  /\ format \in {"pdf", "markdown"}

SpecOptions == InitOptions /\ [][NextExport]_vars


\* ------------------------------------- a collection run over embed blocks

\* what extractEmbedData can read of an embed block: each part there or not
EmbedBlocks ==
  {[title |-> t, description |-> d, author |-> a, fields |-> f, footer |-> ft,
    thumbnail |-> th, image |-> im, borderColor |-> bc] :
     t \in {"", "Release"}, d \in {"", "<i>notes</i>"}, a \in {"", "bot"},
     f \in {<<>>, <<[name |-> "n", value |-> "v"]>>}, ft \in {"", "foot"},
     th \in {"", "https://cdn.discordapp.com/attachments/1/t.png"},
     im \in {"", "https://cdn.discordapp.com/attachments/1/e.png"},
     bc \in {"rgba(0, 0, 0, 0)", "rgb(7, 7, 7)"}}

\* a message with text that carries a footer-only block and one block more
WithEmbeds(block) ==
  Element("bob", "rgb(4, 5, 6)", "", "look", "look", <<>>, <<FooterOnlyBlock, block>>, <<>>)

InitEmbed ==
  /\ \E block \in EmbedBlocks : doc = <<HeadA, WithEmbeds(block), Cont>>
  /\ mountedFrom \in 1..2
  /\ windowSize = WindowSize
  /\ scroller = [found |-> TRUE, scrollTop |-> 0, scrollHeight |-> 800, clientHeight |-> 800]
  /\ startFromId \in {NoId, 1}
  /\ endAtId = NoId
  /\ options \in {[AllOptions EXCEPT !.includeImages = b] : b \in BOOLEAN}
  /\ pc = "collect"
  /\ NoRunYet
  /\ NoCacheYet
  /\ NoRenderYet
  /\ NoCallYet
  /\ NoSelectionYet
  /\ format = "pdf"

SpecEmbed == InitEmbed /\ [][Next]_vars


\* ------------------------------------------------- the selection mode

SelectionHandlers == {"mousemove", "click"}

\* the event joins the history of the last two
Log(e) == lastEvents' = IF Len(lastEvents) < 2 THEN Append(lastEvents, e)
                        ELSE <<lastEvents[2], e>>

\* enterSelectionMode(type): addEventListener adds a listener it has not yet
enterSelectionMode(type) ==
  /\ selectionType' = type
  /\ isSelectionMode' = TRUE
  /\ listeners' = listeners \cup SelectionHandlers

\* a leaving of the mode that removes no handler
exitSelectionModeKeepsHandlers ==
  /\ isSelectionMode' = FALSE
  /\ selectionType' = ""
  /\ UNCHANGED listeners

\* exitSelectionMode()
exitSelectionMode ==
  /\ isSelectionMode' = FALSE
  /\ selectionType' = ""
  /\ listeners' = listeners \ SelectionHandlers

\* the capture listener of selection mode takes a click before any other handler
\* and stops it there
Captured == "click" \in listeners /\ isSelectionMode

\* a click on the mounted message k: in selection mode handleSelectionClick sets the
\* boundary the mode is for and leaves the mode; otherwise the click reaches the
\* document's listener, which closes an open panel
ClickMessage(k) ==
  /\ pc = "idle"
  /\ k \in Mounted
  /\ IF Captured
     THEN /\ selectedMessageId' = IF selectionType = "start" THEN getMessageId(k)
                                  ELSE selectedMessageId
          /\ selectedEndMessageId' = IF selectionType = "end" THEN getMessageId(k)
                                     ELSE selectedEndMessageId
          /\ exitSelectionMode
          /\ UNCHANGED panelVisible
     ELSE /\ panelVisible' = FALSE
          /\ UNCHANGED <<selectedMessageId, selectedEndMessageId, isSelectionMode,
                         selectionType, listeners>>
  /\ Log("click")
  /\ UNCHANGED <<collectVars, cacheVars, renderVars, exportVars, callVars, rivalVars>>

\* a click on the page outside every message, the panel and the button
ClickPage ==
  /\ pc = "idle"
  /\ panelVisible' = IF Captured THEN panelVisible ELSE FALSE
  /\ Log("click outside")
  /\ UNCHANGED <<selectedMessageId, selectedEndMessageId, isSelectionMode, selectionType,
                 listeners>>
  /\ UNCHANGED <<collectVars, cacheVars, renderVars, exportVars, callVars, rivalVars>>

\* a click on the export button: toggleExportPanel
ClickExportButton ==
  /\ pc = "idle"
  /\ ~Captured
  /\ panelVisible' = ~panelVisible
  /\ Log("button")
  /\ UNCHANGED <<selectedMessageId, selectedEndMessageId, isSelectionMode, selectionType,
                 listeners>>
  /\ UNCHANGED <<collectVars, cacheVars, renderVars, exportVars, callVars, rivalVars>>

\* a click on the panel's "set start" or "set end" button
ClickSet(type) ==
  /\ pc = "idle"
  /\ panelVisible /\ ~Captured
  /\ panelVisible' = FALSE
  /\ enterSelectionMode(type)
  /\ Log("set " \o type)
  /\ UNCHANGED <<selectedMessageId, selectedEndMessageId>>
  /\ UNCHANGED <<collectVars, cacheVars, renderVars, exportVars, callVars, rivalVars>>

\* a click on the panel's "clear" button: clearAllSelections
ClickClear ==
  /\ pc = "idle"
  /\ panelVisible /\ ~Captured
  /\ selectedMessageId' = NoId
  /\ selectedEndMessageId' = NoId
  /\ Log("clear")
  /\ UNCHANGED <<isSelectionMode, selectionType, listeners, panelVisible>>
  /\ UNCHANGED <<collectVars, cacheVars, renderVars, exportVars, callVars, rivalVars>>

\* the popup's startSelection message: enterSelectionMode() with its default type
StartSelection ==
  /\ pc = "idle"
  /\ enterSelectionMode("start")
  /\ Log("startSelection")
  /\ UNCHANGED <<selectedMessageId, selectedEndMessageId, panelVisible>>
  /\ UNCHANGED <<collectVars, cacheVars, renderVars, exportVars, callVars, rivalVars>>

\* keydown with key Escape: if (isSelectionMode) exitSelectionMode(); hideExportPanel()
PressEscape ==
  /\ pc = "idle"
  /\ IF isSelectionMode THEN exitSelectionMode
     ELSE UNCHANGED <<isSelectionMode, selectionType, listeners>>
  /\ panelVisible' = FALSE
  /\ Log(IF isSelectionMode THEN "escape" ELSE "escape idle")
  /\ UNCHANGED <<selectedMessageId, selectedEndMessageId>>
  /\ UNCHANGED <<collectVars, cacheVars, renderVars, exportVars, callVars, rivalVars>>

InitSelect ==
  /\ doc = <<HeadA, Cont, Pic>>
  /\ mountedFrom \in 1..2
  /\ windowSize = WindowSize
  /\ scroller = [found |-> TRUE, scrollTop |-> 0, scrollHeight |-> 800, clientHeight |-> 800]
  /\ startFromId = NoId
  /\ endAtId = NoId
  /\ options = AllOptions
  /\ pc = "idle"
  /\ NoRunYet
  /\ NoCacheYet
  /\ NoRenderYet
  /\ NoCallYet
  /\ NoSelectionYet
  /\ format = "pdf"

NextSelect ==
  \/ \E k \in 1..MaxItems : ClickMessage(k)
  \/ ClickPage
  \/ ClickExportButton
  \/ \E type \in {"start", "end"} : ClickSet(type)
  \/ ClickClear
  \/ StartSelection
  \/ PressEscape

SpecSelect == InitSelect /\ [][NextSelect]_vars


\* --------------------------- PDF exports of messages with embeds and images

\* embed blocks with a title or none, a thumbnail or none, an image or none
MediaBlocks ==
  {b \in EmbedBlocks : /\ b.description = "" /\ b.author = "" /\ b.fields = <<>>
                        /\ b.footer = "" /\ b.borderColor = "rgb(7, 7, 7)"}

InitLookup ==
  /\ \E block \in MediaBlocks : doc = <<HeadA, WithEmbeds(block), Pic>>
  /\ mountedFrom \in 1..2
  /\ windowSize = WindowSize
  /\ scroller = [found |-> TRUE, scrollTop |-> 0, scrollHeight |-> 800, clientHeight |-> 800]
  /\ startFromId = NoId
  /\ endAtId = NoId
  /\ options = AllOptions
  /\ pc = "idle"
  /\ userCache = ResetUserCache
  /\ NoLoopYet
  /\ NoCacheYet
  /\ NoRenderYet
  /\ via = "popup"
  /\ callerOptions \in [{"includeImages", "includeAvatars"} -> BOOLEAN]
  /\ isExporting = FALSE
  /\ response = <<>>
  /\ completion = <<>>
  /\ artifact = <<>>
  /\ second = NoSecond
  /\ selectedMessageId \in {NoId, 1}
  /\ selectedEndMessageId = NoId
  /\ isSelectionMode = FALSE
  /\ selectionType = ""
  /\ listeners = {}
  /\ panelVisible = FALSE
  /\ lastEvents = <<>>
  /\ format = "pdf"

NextLookup ==
  \/ ExportStart
  \/ CollectStart
  \/ TopAttempt(CalmTops)
  \/ TopSettle(CalmTops)
  \/ LoopScan
  \/ ScrollStep(CalmTops, CalmHeights)
  \/ CollectReturn
  \/ ExportProcess
  \/ PdfGather
  \/ FetchDoneInOrder
  \/ FetchFailed
  \/ PrefetchBatchDone
  \/ RenderPdf
  \/ ExportComplete

SpecLookup == InitLookup /\ [][NextLookup]_vars


\* ------------------------- a collection run over a long group of one author

\* how many items the channel of the walk has: one more than the walk can cross
WalkItems == 12

\* a channel whose only header is on its first or its second item, all of it
\* mounted; the run starts at the top or at the last item, after an earlier run
InitWalk ==
  /\ \E h \in 1..2 : doc = [i \in 1..WalkItems |-> IF i = h THEN HeadA ELSE Cont]
  /\ mountedFrom = 1
  /\ windowSize = WalkItems
  /\ scroller = [found |-> TRUE, scrollTop |-> 0, scrollHeight |-> 800, clientHeight |-> 800]
  /\ startFromId \in {NoId, WalkItems}
  /\ endAtId = NoId
  /\ options = AllOptions
  /\ pc = "collect"
  /\ userCache = UsedUserCache
  /\ NoLoopYet
  /\ NoCacheYet
  /\ NoRenderYet
  /\ NoCallYet
  /\ NoSelectionYet
  /\ format = "pdf"

SpecWalk == InitWalk /\ [][Next]_vars

\* ------------------------------------------- an export run that goes on

\* LoopScan and CollectReturn by their guard and their move: they have no other
\* condition, and no other step leaves these positions
ScanRuns == pc = "scan" /\ LoopContinues(scrollAttempts, reachedBottom) /\ pc' \in {"after", "scroll"}
ReturnRuns == pc = "after" /\ pc' = "returned"

\* the other steps of a run that has begun: every timer of the collection fires,
\* every fetch answers or fails, and the continuations after them are run
RunStep ==
  \/ CollectNoScroller
  \/ CollectStart
  \/ TopAttempt(CalmTops)
  \/ TopSettle(CalmTops)
  \/ ScrollStep(CalmTops, CalmHeights)
  \/ ExportCatch
  \/ ExportProcess
  \/ GenerateMarkdown
  \/ PdfGather
  \/ FetchDone
  \/ FetchFailed
  \/ PrefetchBatchDone
  \/ RenderPdf
  \/ ExportComplete

\* a page with or without a scroller, showing the top of a channel of pictures after
\* a header or of empty items; an export asked for by any caller
InitLive ==
  /\ InitExport
  /\ mountedFrom = 1
  /\ doc \in {[i \in 1..MaxItems |-> IF i = 1 THEN HeadA ELSE Pic],
              [i \in 1..MaxItems |-> Bare]}

\* the request may never come; once the run has begun it is not left waiting for ever
SpecLive ==
  /\ InitLive /\ [][NextExport]_vars
  /\ WF_vars(RunStep) /\ WF_pc(ScanRuns) /\ WF_pc(ReturnRuns)

\* ------------------------------ a render pass with more urls than the cache holds

\* how many images a message of the album carries
PageImages == 10

\* message m of an album of n images: a message of alice without an avatar that
\* carries the next PageImages images, or those that are left
Page(m, n) ==
  [id |-> m, username |-> "alice", usernameColor |-> "", avatar |-> "",
   timestamp |-> "2024-01-01T00:00:00Z", content |-> "<b>hi</b>", contentText |-> "hi",
   images |-> ImagesFrom([i \in 1..Min(PageImages, n - (m - 1) * PageImages) |->
                            Url((m - 1) * PageImages + i)], 1),
   attachments |-> <<>>, reactions |-> <<>>, embeds |-> <<>>, replyTo |-> <<>>]

\* the messages that carry n images between them
Album(n) == [m \in 1..((n + PageImages - 1) \div PageImages) |-> Page(m, n)]

\* the urls the gathering finds in an album of n images: its images in order
AlbumUrls(n) == [i \in 1..n |-> Url(i)]

\* a pass over messages with as many images as the cache holds, or one more, at
\* the await of its first batch: the cache is cleared, the urls are gathered and
\* the first batch is under way
InitAlbum ==
  /\ doc = <<HeadA>>
  /\ mountedFrom = 1
  /\ windowSize = WindowSize
  /\ scroller = [found |-> TRUE, scrollTop |-> 0, scrollHeight |-> 800, clientHeight |-> 800]
  /\ startFromId = NoId
  /\ endAtId = NoId
  /\ options = AllOptions
  /\ pc = "prefetch"
  /\ NoRunYet
  /\ \E n \in {MAX_IMAGE_CACHE_SIZE, MAX_IMAGE_CACHE_SIZE + 1} :
       /\ messages = Album(n)
       /\ urlArray = AlbumUrls(n)
       /\ inFlight = StartBatch(NoneInFlight, <<>>, AlbumUrls(n), 1, PREFETCH_BATCH)
  /\ imageCache = <<>>
  /\ readKeys = {}
  /\ insertions = <<>>
  /\ settled = <<>>
  /\ failedUrls = {}
  /\ md = <<>>
  /\ pdf = <<>>
  /\ prefetchIndex = 0
  /\ renderIndex = 0
  /\ lastUsername = ""
  /\ result = <<>>
  /\ renderPasses = 1
  /\ NoCallYet
  /\ NoSelectionYet
  /\ format = "pdf"

\* the first fetch of the pass that fails, failing before the fetches asked for
\* earlier have answered
FetchFailedFirst ==
  /\ failedUrls = {}
  /\ FetchFailed
  /\ failedUrls' \subseteq FirstInFlight

\* the fetches answer in the order they were asked for; at most one fails
NextAlbum ==
  \/ FetchDoneInOrder
  \/ FetchFailedFirst
  \/ PrefetchBatchDone
  \/ RenderPdf

SpecAlbum == InitAlbum /\ [][NextAlbum]_vars

\* ------------------------------------------- a second request during a run

\* the positions at which a run is suspended at a wait: the timers of the
\* scroll-to-top loop, of the settle and of the scroll step, and the fetches
WaitPcs == {"top", "settle", "scroll", "prefetch"}

\* the ways an export is asked for: the panel button (startExport) and the
\* exportPDF, exportMarkdown and exportFromContextMenu messages
Entries == {"panel", "exportPDF", "exportMarkdown", "exportFromContextMenu"}

\* a request arrives while the run is suspended: its handler runs up to its own
\* first wait.  startExport returns at once when its flag is set; the message
\* handlers call the export whatever the flag says.  The export sends its first
\* notification and enters the collection, which resets the user cache and either
\* starts the scroll to the top or jumps to the start element (with a start that
\* is not mounted and no end selected, its first scan extracts nothing).
\* k is the element right-clicked last, for exportFromContextMenu.
SecondRequest(entry, fmt, k) ==
  /\ pc \in WaitPcs
  /\ second.pc = "none"
  /\ scroller.found
  /\ selectedEndMessageId = NoId
  /\ fmt = IF entry = "exportPDF" THEN "pdf"
           ELSE IF entry = "exportMarkdown" THEN "markdown" ELSE fmt
  /\ k = NoId <=> entry # "exportFromContextMenu"
  /\ IF entry = "panel" /\ isExporting
     THEN /\ second' = [pc |-> "ignored", entry |-> entry, format |-> fmt]
          /\ UNCHANGED <<userCache, percent, scroller, mountedFrom, isExporting,
                         selectedMessageId>>
     ELSE LET start == IF entry = "exportFromContextMenu" THEN k ELSE selectedMessageId
          IN /\ second' = [pc |-> "collecting", entry |-> entry, format |-> fmt]
             /\ isExporting' = IF entry = "panel" THEN TRUE ELSE isExporting
             /\ selectedMessageId' = start
             /\ userCache' = ResetUserCache
             /\ percent' = IF start = NoId THEN <<Pct(5)>> ELSE <<Pct(10)>>
             /\ scroller' = IF start = NoId THEN [scroller EXCEPT !.scrollTop = 0]
                            ELSE scroller
             /\ IF getElementById(start) # NoId
                THEN mountedFrom' \in WindowsWith(start)
                ELSE UNCHANGED mountedFrom
  /\ UNCHANGED <<doc, windowSize, startFromId, endAtId, options, pc, collectedMessages,
                 noChangeCount, foundStartMessage, foundEndMessage, reachedBottom,
                 scrollAttempts, scrollUpAttempts, lastScrollTop, scanned, extracted,
                 dropped, reseen, stallRun, topExhausted>>
  /\ UNCHANGED <<cacheVars, renderVars, exportVars, callerOptions, via, response,
                 completion, artifact, selectedEndMessageId, isSelectionMode,
                 selectionType, listeners, panelVisible, lastEvents>>

\* the second run enters generatePDFContent: clearImageCache()
SecondGenerate ==
  /\ pc \in WaitPcs
  /\ second.pc = "collecting" /\ second.format = "pdf"
  /\ second' = [second EXCEPT !.pc = "rendering"]
  /\ clearImageCache
  /\ UNCHANGED <<collectVars, inFlight, readKeys, settled, failedUrls, renderVars,
                 exportVars, callVars, uiVars>>

\* the second run ends: generatePDFContent clears the image cache on its way out,
\* and startExport drops the flag in its finally
SecondFinish ==
  /\ pc \in WaitPcs
  /\ \/ second.pc = "rendering" /\ clearImageCache
     \/ second.pc = "collecting" /\ second.format = "markdown"
        /\ UNCHANGED <<imageCache, insertions>>
  /\ second' = [second EXCEPT !.pc = "done"]
  /\ isExporting' = IF second.entry = "panel" THEN FALSE ELSE isExporting
  /\ UNCHANGED <<collectVars, inFlight, readKeys, settled, failedUrls, renderVars,
                 exportVars, callerOptions, via, response, completion, artifact, uiVars>>

\* a page with a scroller, showing the top of a channel of pictures after a header or
\* of empty items; an export asked for by any caller, and no end selected
InitRuns ==
  /\ InitExport
  /\ scroller.found
  /\ mountedFrom = 1
  /\ doc \in {[i \in 1..MaxItems |-> IF i = 1 THEN HeadA ELSE Pic],
              [i \in 1..MaxItems |-> Bare]}

NextRuns ==
  \/ ExportStart
  \/ CollectStart
  \/ TopAttempt(CalmTops)
  \/ TopSettle(CalmTops)
  \/ LoopScan
  \/ ScrollStep(CalmTops, CalmHeights)
  \/ CollectReturn
  \/ ExportCatch
  \/ ExportProcess
  \/ GenerateMarkdown
  \/ PdfGather
  \/ FetchDoneInOrder
  \/ FetchFailed
  \/ PrefetchBatchDone
  \/ RenderPdf
  \/ ExportComplete
  \/ \E e \in Entries, f \in {"pdf", "markdown"}, k \in Mounted \cup {NoId} :
       SecondRequest(e, f, k)
  \/ SecondGenerate
  \/ SecondFinish

SpecRuns == InitRuns /\ [][NextRuns]_vars

\* ------------------------------------------------------ the collected run

IdSet(msgs) == {msgs[i].id : i \in 1..Len(msgs)}

\* the members of a set of positions, in document order
RECURSIVE InOrder(_)
InOrder(S) ==
  IF S = {} THEN <<>>
  ELSE LET m == CHOOSE x \in S : \A y \in S : x <= y
       IN <<m>> \o InOrder(S \ {m})

\* both boundaries were supplied and the scan has reached both items
BothBoundariesMet ==
  /\ pc = "returned"
  /\ startFromId # NoId /\ endAtId # NoId
  /\ startFromId \in scanned /\ endAtId \in scanned

\* the scanned items from the start item through the end item
ScannedRange == {i \in scanned : startFromId <= i /\ i <= endAtId}

\* C1: at every point of every run, and so in the sequence the run returns, no two
\* records carry the same id.
C1_NoDuplicateIds ==
  \A i, j \in 1..Len(Returned) : i # j => Returned[i].id # Returned[j].id

\* a run has returned two or more records after a scan met an id it had stored before
C1_Witness == pc = "returned" /\ reseen /\ Len(Returned) >= 2

\* C2, for the runs in which the extractor returned null for nothing: with both
\* boundaries supplied and both items met by the scan, the returned sequence is
\* exactly the scanned items from the start item through the end item, in the order
\* the scan met them: nothing before the start, nothing after the end, none missing.
C2_ExactRange ==
  (BothBoundariesMet /\ dropped = {}) => Ids(Returned) = InOrder(ScannedRange)

\* C6: no stored record is empty in all four of content, attachments, embeds and
\* author, whether the main loop or the fallback sweep stored it.
C6_NoEmptyRecord ==
  \A i \in 1..Len(Returned) :
    ~(/\ Returned[i].content = ""
      /\ Len(Returned[i].images) = 0
      /\ Len(Returned[i].embeds) = 0
      /\ Returned[i].username = "")

\* a run has returned records after the extractor returned null for an item, and
\* the fallback sweep ran too
C6_Witness ==
  /\ pc = "returned"
  /\ dropped # {}
  /\ Len(Returned) >= 1
  /\ startFromId # NoId /\ ~foundStartMessage

\* C3: once the four stall conditions (at bottom, position delta under 5, store
\* size unchanged, height unchanged) have held after the scroll step in 8 consecutive
\* passes, the loop has ended at that pass: no later step scans, scrolls or counts a
\* pass.
C3_StallEndsLoop ==
  [][stallRun >= maxNoChangeAttempts =>
       /\ pc \in {"after", "returned"} /\ reachedBottom
       /\ scrollAttempts' = scrollAttempts /\ scanned' = scanned
       /\ scroller' = scroller /\ mountedFrom' = mountedFrom]_vars

\* the loop has ended on its 8th consecutive stalled pass, after earlier passes in
\* which the view moved
C3_Witness ==
  /\ stallRun = maxNoChangeAttempts /\ pc = "after" /\ reachedBottom
  /\ scrollAttempts > maxNoChangeAttempts /\ scrollAttempts < maxScrollAttempts

\* C4: the main loop never starts a 501st pass and the scroll-to-top phase never
\* counts a 501st attempt, whatever the view does.
C4_HardCap ==
  /\ scrollAttempts <= maxScrollAttempts
  /\ scrollUpAttempts <= maxScrollAttempts

\* the main loop has ended on its cap alone, after a scroll-to-top phase that ended
\* on its cap too
C4_Witness ==
  /\ pc = "after" /\ scrollAttempts = maxScrollAttempts
  /\ ~reachedBottom /\ ~foundEndMessage /\ topExhausted

\* ------------------------------------------------------ the image cache

\* the key of the cache that entered it longest ago, by the history of insertions
LastEntry(url) ==
  CHOOSE i \in 1..Len(insertions) :
    insertions[i] = url /\ \A j \in (i + 1)..Len(insertions) : insertions[j] # url
OldestInserted ==
  CHOOSE k \in KeySet(imageCache) : \A other \in KeySet(imageCache) : LastEntry(k) <= LastEntry(other)

\* C5: the image cache never holds more than 200 entries, and a step that inserts a
\* url the full cache lacks (the 201st distinct url) removes exactly the entry that
\* was inserted longest ago, whether or not a call has read that entry since, and
\* leaves the cache at 200 entries.
C5_BoundedFifo ==
  /\ [](Len(imageCache) <= MAX_IMAGE_CACHE_SIZE)
  /\ [][(/\ Len(imageCache) = MAX_IMAGE_CACHE_SIZE
         /\ KeySet(imageCache') \ KeySet(imageCache) # {}) =>
          /\ Len(imageCache') = MAX_IMAGE_CACHE_SIZE
          /\ KeySet(imageCache) \ KeySet(imageCache') = {OldestInserted}]_vars

\* the full cache has taken one more url and lost its first-inserted entry, which a
\* call had read from the cache before, while other fetches were still in flight
C5_Witness ==
  /\ Len(imageCache) = MAX_IMAGE_CACHE_SIZE
  /\ ~MapHas(imageCache, Url(1)) /\ MapHas(imageCache, Url(2))
  /\ Url(1) \in readKeys
  /\ \A i \in 1..MaxNewUrls : MapHas(imageCache, Url(Prefilled + i))
  /\ InFlightCount >= PREFETCH_BATCH - 2

\* ---------------------------------------------------- the rendered documents

\* message i follows a message of the same author and carries no reply preview
SameAuthorNoReply(i) ==
  /\ messages[i].username = messages[i - 1].username
  /\ ~hasReply(messages[i])

HeaderLines(lines, i) == {k \in 1..Len(lines) : lines[k].of = i /\ lines[k].role = "header"}

\* the renderer that ran emitted an author header for message i
HeaderEmitted(i) ==
  \/ format = "pdf" /\ pdf[i].headerHtml # <<>>
  \/ format = "markdown" /\ HeaderLines(md, i) # {}

\* C7 as stated: for two consecutive messages with an identical author, both
\* authors empty included, and no reply preview on the second, the renderer emits no
\* author header for the second.
C7_NoRepeatedHeader ==
  pc = "done" => \A i \in 2..Len(messages) : SameAuthorNoReply(i) => ~HeaderEmitted(i)

\* C7 as amended: for two consecutive messages with an identical author and no reply
\* preview on the second, either renderer emits no author header for the second when
\* the author is non-empty, and emits the header (of "Unknown") when it is empty.
C7_NoRepeatedKnownHeader ==
  pc = "done" =>
    \A i \in 2..Len(messages) :
      SameAuthorNoReply(i) => (HeaderEmitted(i) <=> messages[i].username = "")

\* the PDF renderer has rendered two messages of alice, the second without a reply,
\* with a header on the first and none on the second, and the Markdown renderer
\* decides the same for these messages
C7_Witness ==
  /\ pc = "done" /\ format = "pdf" /\ Len(messages) >= 2
  /\ messages[1].username = "alice" /\ SameAuthorNoReply(2)
  /\ pdf[1].headerHtml # <<>> /\ pdf[2].headerHtml = <<>>
  /\ HeaderLines(generateMarkdownContent(messages, options), 1) # {}
  /\ HeaderLines(generateMarkdownContent(messages, options), 2) = {}

\* the Markdown renderer has run over messages of one author that all have text, no
\* reply preview and no image
SameAuthorRun ==
  /\ pc = "done" /\ format = "markdown"
  /\ \A i \in 1..Len(messages) :
       /\ messages[i].username = messages[1].username
       /\ messages[i].contentText # ""
       /\ ~hasReply(messages[i])
       /\ Len(messages[i].images) = 0

WithRole(role) == {k \in 1..Len(md) : md[k].role = role}
RuleLines == {k \in 1..Len(md) : md[k].text = "---"}

\* C8 as stated: for N consecutive same-author messages with text, no reply and no
\* image, the whole Markdown output has exactly one author-header line, N content
\* lines and exactly N lines '---'.
C8_ExactlyNRules ==
  SameAuthorRun =>
    /\ Cardinality(WithRole("header")) = 1
    /\ Cardinality(WithRole("content")) = Len(messages)
    /\ Cardinality(RuleLines) = Len(messages)

\* C8 as amended: for N consecutive same-author messages with text, no reply and no
\* image, the Markdown output has one author-header line when the author is
\* non-empty and N when it is empty, N content lines, and N + 1 lines '---': the rule
\* of the preamble and one separator that ends each message.
C8_RulesWithPreamble ==
  SameAuthorRun =>
    /\ Cardinality(WithRole("header")) = IF messages[1].username # "" THEN 1 ELSE Len(messages)
    /\ Cardinality(WithRole("content")) = Len(messages)
    /\ Cardinality(WithRole("separator")) = Len(messages)
    /\ \A i \in 1..Len(messages) :
         Cardinality({k \in WithRole("separator") : md[k].of = i}) = 1
    /\ RuleLines = WithRole("separator") \cup WithRole("rule")
    /\ Cardinality(RuleLines) = Len(messages) + 1

\* the Markdown renderer has run over three messages of alice with text, no reply
\* and no image
C8_Witness ==
  /\ SameAuthorRun
  /\ Len(messages) = 3
  /\ messages[1].username = "alice"

\* ------------------------------------------------------- the progress sink

\* C9: over one export run, from its first notification to its return, no percent
\* sent to the progress sink is lower than the one sent before it.
C9_MonotonePercent ==
  [][(percent # <<>> /\ percent' # <<>>) => percent'[1] >= percent[1]]_vars

\* C10: every percent sent to the progress sink is an integer from 0 through 100.
C10_IntegerPercent ==
  percent # <<>> => (percent[1] % 100 = 0 /\ percent[1] >= Pct(0) /\ percent[1] <= Pct(100))

\* ------------------------------------------------------- the end of a run

ErrorStrings ==
  {"Could not find messages scroller", "No messages found to export",
   "Cannot read properties of null"}

\* C11 as stated: the exportComplete message sent at the end of a run carries
\* success = true together with the number of exported messages, or success = false
\* together with the error string.
C11_CompletionCarriesCount ==
  completion # <<>> =>
    LET c == completion[1]
    IN \/ /\ c.success
          /\ "messageCount" \in DOMAIN c
          /\ c.messageCount = Len(messages)
       \/ /\ ~c.success
          /\ c.error \in ErrorStrings

\* C11 as amended: the exportComplete message carries success and error and nothing
\* else: success = true with no error exactly when the run produced its print window
\* or download, else success = false with the error string of the run; the number of
\* exported messages is only in the result, which the message listener hands to its
\* caller and the panel button drops.
C11_CompletionCarriesOutcome ==
  completion # <<>> =>
    LET c == completion[1]
    IN /\ DOMAIN c = {"action", "success", "error"}
       /\ c.success <=> artifact # <<>>
       /\ c.success => c.error = "" /\ result[1].messageCount = Len(messages)
       /\ ~c.success => c.error \in ErrorStrings /\ c.error = result[1].error
       /\ ~scroller.found => c.error = "Could not find messages scroller"
       /\ response = IF via = "popup" THEN <<result[1]>> ELSE <<>>

\* a PDF export of three messages started from the popup has sent its completion
\* message and answered its caller
C11_Witness ==
  /\ completion # <<>> /\ completion[1].success
  /\ format = "pdf" /\ via = "popup"
  /\ response # <<>> /\ response[1].messageCount = MaxItems
  /\ Len(messages) = MaxItems

\* no renderer has run and the run has produced neither a print window nor a download
NothingRendered ==
  /\ messages = <<>> /\ md = <<>> /\ pdf = <<>>
  /\ renderPasses = 0
  /\ artifact = <<>>

\* C12: an export never ends without a result; when no scrollable container is found
\* or the collection returns no message the result is {success: false, error}, no
\* renderer has run and no print window or download exists; when the container is
\* missing nothing was scrolled, scanned or extracted and the user cache was not
\* reset either.
C12_FailsCleanly ==
  /\ pc \in {"done", "notified"} => result # <<>>
  /\ ~scroller.found =>
       /\ pc \in {"done", "notified"} => result[1] = Failure("Could not find messages scroller")
       /\ NothingRendered
       /\ scroller.scrollTop = 0 /\ scrollAttempts = 0 /\ scrollUpAttempts = 0
       /\ scanned = {} /\ extracted = {}
       /\ userCache = UsedUserCache
  /\ (scroller.found /\ pc \in {"done", "notified"} /\ Len(Returned) = 0) =>
       /\ result[1] = Failure("No messages found to export")
       /\ NothingRendered

\* an export on a page without a scrollable container has ended and reported, with
\* the user cache of the run before it untouched
C12_Witness ==
  /\ pc = "notified" /\ ~scroller.found
  /\ ~result[1].success /\ ~completion[1].success
  /\ userCache = UsedUserCache /\ userCache # ResetUserCache

\* an export whose collection returned no message has ended and reported
C12_NoMessagesReached ==
  /\ pc = "notified" /\ scroller.found /\ Len(Returned) = 0
  /\ scanned # {}

\* ------------------------------------------------------- the render pass

\* the images of the rendered message i that the document shows
ShownImages(i) == IF pdf[i].imagesHtml = <<>> THEN 0 ELSE Len(pdf[i].imagesHtml[1])
ImageUrlsOf(i) == {messages[i].images[k].staticUrl : k \in 1..Len(messages[i].images)}

\* C13: a step in which the fetch of a getCachedImage call fails leaves the image
\* cache as it was, and the call returns null and does not throw; the other calls of
\* the batch stay in flight and the pass goes on: when the render loop begins every
\* batch has run and every url is cached unless its own fetch failed, and the pass
\* ends with a document of all messages that shows every image whose fetch did not
\* fail.
C13_FailureIsolated ==
  /\ [][failedUrls' \ failedUrls # {} =>
          /\ imageCache' = imageCache
          /\ settled'[1].null /\ ~settled'[1].threw
          /\ pc' = pc
          /\ DOMAIN inFlight' \subseteq DOMAIN inFlight
          /\ DOMAIN inFlight \ DOMAIN inFlight' \subseteq failedUrls']_vars
  /\ [](pc = "render" =>
          /\ prefetchIndex >= Len(urlArray)
          /\ \A i \in 1..Len(urlArray) :
               MapHas(imageCache, urlArray[i]) <=> urlArray[i] \notin failedUrls)
  /\ [](pc = "done" =>
          /\ Len(pdf) = Len(messages)
          /\ \A i \in 1..Len(pdf) :
               ShownImages(i) = Cardinality(ImageUrlsOf(i) \ failedUrls))

\* a pass of two batches has ended with its document after one fetch of the first
\* batch failed: the document shows the avatar and every image but that one
C13_Witness ==
  /\ pc = "done" /\ result # <<>> /\ result[1].success
  /\ prefetchIndex > PREFETCH_BATCH
  /\ failedUrls = {Url(3)}
  /\ ShownImages(1) = GalleryImages - 1
  /\ pdf[1].avatarHtml.kind = "img"

\* C14: the image cache is scoped to one render pass: it is empty at the moment a
\* pass starts its prefetch (the step that leaves "generate" ends with an empty
\* cache and the first batch under way), whatever an earlier pass has cached, and
\* it is empty again when the pass has ended, with or without a print window.
C14_CacheScopedToPass ==
  /\ [][pc = "generate" /\ pc' # "generate" =>
          /\ imageCache' = <<>>
          /\ pc' = "prefetch"
          /\ DOMAIN inFlight' # {}]_vars
  /\ [](pc = "done" => imageCache = <<>>)
  /\ [](pc = "generate" => imageCache = <<>>)

\* a second pass has ended with an empty cache after it showed the avatar from the
\* cache it filled itself
C14_Witness ==
  /\ pc = "done" /\ renderPasses = MaxPasses
  /\ imageCache = <<>>
  /\ failedUrls = {}
  /\ ShownImages(1) = GalleryImages
  /\ pdf[1].avatarHtml.kind = "img"

\* C15: the options an export runs with are the caller's record merged over the
\* defaults: from the start of the export to its end every one of the four keys
\* has the caller's value when the caller sent the key and is true when the caller
\* left it out, for every subset of the keys the caller sends, and the collection
\* and both renderers are handed that one record.
C15_OptionsMergedOverDefaults ==
  pc # "idle" =>
    /\ DOMAIN options = OptionKeys
    /\ \A k \in OptionKeys :
         options[k] = IF k \in DOMAIN callerOptions THEN callerOptions[k] ELSE TRUE

\* an export asked for with only includeImages, set to false, has ended: that key
\* is false, the three keys left out are true, and the document shows no image
C15_Witness ==
  /\ pc = "done" /\ result # <<>> /\ result[1].success
  /\ callerOptions = [includeImages |-> FALSE]
  /\ ~options.includeImages
  /\ options.includeAvatars /\ options.includeTimestamps /\ options.includeReactions
  /\ Len(messages) > 0
  /\ \A i \in 1..Len(messages) : messages[i].images = <<>>

\* the embed blocks of the element a stored record was extracted from
BlocksOf(r) == doc[r.id].embedBlocks
\* a block has a title, a description, a field or, where images count, an image
HasPart(b, imagesCount) ==
  b.title # "" \/ b.description # "" \/ Len(b.fields) > 0 \/ (imagesCount /\ b.image # "")
\* the blocks with such a part, in order
RECURSIVE YieldedFrom(_, _, _)
YieldedFrom(blocks, j, imagesCount) ==
  IF j > Len(blocks) THEN <<>>
  ELSE (IF HasPart(blocks[j], imagesCount) THEN <<blocks[j]>> ELSE <<>>)
       \o YieldedFrom(blocks, j + 1, imagesCount)
\* an embed of a record is the embed of that block: the same title, description,
\* fields, author and footer
SameParts(embeds, blocks) ==
  /\ Len(embeds) = Len(blocks)
  /\ \A j \in 1..Len(embeds) :
       /\ embeds[j].title = blocks[j].title
       /\ embeds[j].description = blocks[j].description
       /\ embeds[j].fields = blocks[j].fields
       /\ embeds[j].author = blocks[j].author
       /\ embeds[j].footer = blocks[j].footer

\* C16 as stated: the embeds of every stored record are, in order, the blocks of its
\* element that have a title, a description, at least one field or an image, and no
\* other block.
C16_EmbedIffAnyOfFour ==
  \A i \in 1..Len(collectedMessages) :
    LET r == collectedMessages[i].value
    IN SameParts(r.embeds, YieldedFrom(BlocksOf(r), 1, TRUE))

\* C16, amended: the embeds of every stored record are, in order, the blocks of its
\* element that have a title, a description, at least one field or, in a run with
\* includeImages on, an image, and no other block: a block with only a footer, an
\* author, a thumbnail or an accent colour yields none, and in a run with
\* includeImages off neither does a block whose only part of the four is its image.
C16_EmbedIffAnyReadPart ==
  \A i \in 1..Len(collectedMessages) :
    LET r == collectedMessages[i].value
    IN SameParts(r.embeds, YieldedFrom(BlocksOf(r), 1, options.includeImages))

\* a run with includeImages off has returned the record of a message whose second
\* block has an image, a footer and a thumbnail but no title, description or field:
\* the record carries no embed
C16_Witness ==
  /\ pc = "returned"
  /\ ~options.includeImages
  /\ \E i \in 1..Len(Returned) :
       /\ Returned[i].id = 2
       /\ Returned[i].embeds = <<>>
       /\ doc[2].embedBlocks[2].image # ""
       /\ doc[2].embedBlocks[2].footer # ""
       /\ doc[2].embedBlocks[2].thumbnail # ""

\* a run with includeImages on has returned a record with the embed of a block
\* whose only part of the four is its image
C16_ImageOnlyYields ==
  /\ pc = "returned"
  /\ options.includeImages
  /\ \E i \in 1..Len(Returned) :
       /\ Returned[i].id = 2
       /\ Len(Returned[i].embeds) = 1
       /\ Returned[i].embeds[1].title = "" /\ Returned[i].embeds[1].description = ""
       /\ Returned[i].embeds[1].fields = <<>>
       /\ Returned[i].embeds[1].image # ""

\* C17: a press of Escape while selection mode is active leaves the mode
\* (isSelectionMode false, the selection type cleared, the click and the mousemove
\* handler removed) and leaves both boundaries as they were; and from then until the
\* mode is entered again a click on a message sets no boundary.
C17_EscapeLeavesSelectionMode ==
  /\ [][(isSelectionMode /\ Len(lastEvents') > 0
          /\ lastEvents'[Len(lastEvents')] = "escape") =>
          /\ ~isSelectionMode'
          /\ selectionType' = ""
          /\ listeners' \cap SelectionHandlers = {}
          /\ selectedMessageId' = selectedMessageId
          /\ selectedEndMessageId' = selectedEndMessageId]_vars
  /\ [][(~isSelectionMode /\ Len(lastEvents') > 0
          /\ lastEvents'[Len(lastEvents')] = "click") =>
          /\ selectedMessageId' = selectedMessageId
          /\ selectedEndMessageId' = selectedEndMessageId
          /\ ~isSelectionMode']_vars
  /\ [](isSelectionMode <=> listeners \cap SelectionHandlers # {})

\* Escape was pressed in selection mode and then a message was clicked: the mode is
\* off and no boundary is set
C17_Witness ==
  /\ lastEvents = <<"escape", "click">>
  /\ ~isSelectionMode /\ selectionType = "" /\ listeners = {}
  /\ selectedMessageId = NoId /\ selectedEndMessageId = NoId

StoredAfter == {collectedMessages'[i].key : i \in 1..Len(collectedMessages')}

\* C19: a scan pass over a view in which the end item is mounted reaches that item,
\* and then the item is in the store unless the extractor returned null for it, the
\* pass has met and extracted no item after it, and the loop has ended; and once the
\* end item was met no step scrolls the view or counts another pass.
C19_EndStopsAtOnce ==
  /\ [][(pc = "scan" /\ scrollAttempts' = scrollAttempts + 1
          /\ endAtId # NoId /\ endAtId \in Mounted) =>
          /\ foundEndMessage' /\ reachedBottom'
          /\ endAtId \in StoredAfter \cup dropped'
          /\ endAtId \in scanned'
          /\ \A k \in Positions : k > endAtId =>
               /\ k \in scanned' => k \in scanned
               /\ k \in extracted' => k \in extracted
               /\ k \in StoredAfter => k \in IdSet(Returned)
          /\ pc' = "after"]_vars
  /\ [][foundEndMessage =>
          /\ pc' \notin {"scan", "scroll"}
          /\ UNCHANGED <<scroller, mountedFrom, scrollAttempts, noChangeCount>>]_vars

\* the first pass met the end item with a later item mounted: the end item is
\* stored, the later item was never looked at, and the loop is over unscrolled
C19_Witness ==
  /\ pc = "after" /\ foundEndMessage
  /\ scrollAttempts = 1
  /\ endAtId \in IdSet(Returned)
  /\ endAtId + 1 \in Mounted
  /\ endAtId + 1 \notin scanned
  /\ scroller.scrollTop = 0

\* C20: when the loop has ended, a run with a start id whose start item was never
\* observed (not mounted when the run began and never met by the scan) stores every
\* mounted item it has not stored yet, after the items it had, whatever the
\* boundaries; a run whose start item was observed stores and extracts nothing more.
C20_SweepIffStartUnobserved ==
  [][(pc = "after" /\ pc' = "returned" /\ startFromId # NoId) =>
       LET observed == foundStartMessage \/ startFromId \in scanned
       IN IF observed
          THEN /\ collectedMessages' = collectedMessages
               /\ extracted' = extracted
          ELSE /\ \A k \in Mounted : k \in StoredAfter \cup dropped'
               /\ SubSeq(collectedMessages', 1, Len(collectedMessages)) = collectedMessages]_vars

\* ------------------------------------------------------- replies and headers

\* the record carries a reply preview with a name or a text in it
ReplyWithPreview(i) ==
  /\ messages[i].replyTo # <<>>
  /\ (messages[i].replyTo[1].username # "" \/ messages[i].replyTo[1].content # "")

\* C21 as stated: every message whose record has replyTo set, whatever its username
\* and content hold, is rendered with its author header by the renderer that ran.
C21_ReplyForcesHeader ==
  pc = "done" => \A i \in 1..Len(messages) : messages[i].replyTo # <<>> => HeaderEmitted(i)

\* C21 as amended: every message whose reply preview has a non-empty username or a
\* non-empty content is rendered with its author header, by either renderer, also
\* when its author is the author of the message before it; a message whose replyTo
\* is set with both empty is rendered as a message without a reply: its header is
\* left out when its non-empty author is the author of the message before it.
C21_ReplyPreviewForcesHeader ==
  pc = "done" =>
    \A i \in 1..Len(messages) :
      /\ ReplyWithPreview(i) => HeaderEmitted(i)
      /\ (/\ messages[i].replyTo # <<>> /\ ~ReplyWithPreview(i)
          /\ i > 1 /\ messages[i].username # ""
          /\ messages[i].username = messages[i - 1].username) => ~HeaderEmitted(i)

\* a renderer has rendered two messages of alice, the second a reply to bob, with a
\* header on both; the other renderer decides the same
C21_Witness ==
  /\ pc = "done" /\ format = "markdown" /\ Len(messages) >= 2
  /\ messages[1].username = "alice" /\ messages[2].username = "alice"
  /\ ReplyWithPreview(2)
  /\ HeaderLines(md, 1) # {} /\ HeaderLines(md, 2) # {}
  /\ PdfMessage(messages[2], "alice", options, <<>>).headerHtml # <<>>

\* ------------------------------------------------------- the prefetch batches

\* the urls of the batch the prefetch loop is waiting for
CurrentBatch ==
  {urlArray[i] : i \in (prefetchIndex + 1)..Min(prefetchIndex + PREFETCH_BATCH, Len(urlArray))}
\* the urls of the batches before it
EarlierBatches == {urlArray[i] : i \in 1..Min(prefetchIndex, Len(urlArray))}

\* C22: during the prefetch phase at most 10 fetches are in flight, all of them of
\* the batch the loop is waiting for; a step starts fetches only when no fetch is in
\* flight, and every url of an earlier batch has settled: it is cached or its fetch
\* failed.
C22_BatchedPrefetch ==
  /\ [](InFlightCount <= PREFETCH_BATCH)
  /\ [](pc = "prefetch" =>
          /\ DOMAIN inFlight \subseteq CurrentBatch
          /\ \A u \in EarlierBatches : MapHas(imageCache, u) \/ u \in failedUrls)
  /\ [](pc # "prefetch" => DOMAIN inFlight = {})
  /\ [][DOMAIN inFlight' \ DOMAIN inFlight # {} => DOMAIN inFlight = {}]_vars

\* the second batch is in flight after the ten fetches of the first have settled,
\* one of them by failing
C22_Witness ==
  /\ pc = "prefetch"
  /\ prefetchIndex = PREFETCH_BATCH
  /\ DOMAIN inFlight # {}
  /\ Cardinality(failedUrls) = 1
  /\ Len(imageCache) = PREFETCH_BATCH - 1

\* the ten fetches of the first batch are in flight together
C22_FullBatchInFlight ==
  /\ pc = "prefetch" /\ prefetchIndex = 0
  /\ InFlightCount = PREFETCH_BATCH

\* ------------------------------------------------------- the render lookups

\* the urls gathered for the prefetch
Gathered == {urlArray[i] : i \in 1..Len(urlArray)}

\* C23: within a render pass no fetch is started once the prefetch phase has ended
\* and none is in flight then; the render loop leaves the image cache as it is until
\* the pass clears it at its end; and every key the loop looks up (the avatar under
\* includeAvatars, the static url of an image under includeImages, the thumbnail and
\* the image of an embed always) is one of the urls gathered for the prefetch.
C23_RenderOnlyReads ==
  /\ [](pc = "render" => DOMAIN inFlight = {} /\ PdfLookups(messages, options) \subseteq Gathered)
  /\ [][pc = "render" =>
          /\ inFlight' = inFlight
          /\ insertions' = insertions \/ insertions' = <<>>
          /\ imageCache' = imageCache \/ (pc' = "done" /\ imageCache' = <<>>)]_vars

\* the render loop has begun for messages with an avatar, an image and an embed that
\* has a thumbnail and an image: four or more keys to look up, all of them cached
C23_Witness ==
  /\ pc = "render"
  /\ Cardinality(PdfLookups(messages, options)) >= 4
  /\ \E i \in 1..Len(messages) :
       /\ Len(messages[i].embeds) = 1
       /\ messages[i].embeds[1].thumbnail # "" /\ messages[i].embeds[1].image # ""
  /\ PdfLookups(messages, options) \subseteq KeySet(imageCache)

\* ------------------------------------------------------- the user cache

\* the header-bearing mounted items at most AuthorWalkLimit siblings before item k
HeadersBehind(k) ==
  {j \in mountedFrom..(k - 1) : doc[j].header # "" /\ k - j <= AuthorWalkLimit}
\* the author of the nearest of them, "" when there is none
NearestHeaderBehind(k) ==
  IF HeadersBehind(k) = {} THEN ""
  ELSE doc[CHOOSE j \in HeadersBehind(k) : \A i \in HeadersBehind(k) : i <= j].header

\* C24: a collection run that has found its scroller begins with an empty user cache
\* (no avatar, no colour, no last author); and whatever the cache holds during the
\* run, the extraction of a mounted item without a header of its own takes the
\* cache's last author when there is one and otherwise the author of the nearest
\* header at most 10 siblings back, and an extraction that resolved an author
\* leaves that author as the cache's last author.
C24_UserCacheRules ==
  /\ [][pc = "collect" /\ pc' \in {"scan", "top"} => userCache' = ResetUserCache]_vars
  /\ [](\A k \in Mounted :
          LET r == extractMessageData(k, userCache, options)
              author == IF doc[k].header # "" THEN doc[k].header
                        ELSE IF userCache.lastUsername # "" THEN userCache.lastUsername
                        ELSE NearestHeaderBehind(k)
          IN /\ r.data # <<>> => r.data[1].username = author
             /\ author # "" => r.cache.lastUsername = author
             /\ author = "" => r.cache.lastUsername = userCache.lastUsername)
  /\ [](pc \in {"scan", "scroll", "after"} /\ Len(collectedMessages) > 0 /\ userCache.lastUsername = ""
          => \A i \in 1..Len(collectedMessages) : collectedMessages[i].value.username = "")

\* a run that began at the last item of a group of twelve has returned it without
\* an author: the cache was empty and the only header is eleven siblings back
C24_Witness ==
  /\ pc = "returned"
  /\ startFromId = Len(doc) /\ Len(doc) > AuthorWalkLimit + 1
  /\ doc[1].header = "alice"
  /\ 1 \in scanned
  /\ Len(Returned) >= 1
  /\ Returned[1].id = startFromId /\ Returned[1].username = ""

\* a run that began at the last item has returned it with the author of the header
\* ten siblings back
C24_WalkReaches ==
  /\ pc = "returned"
  /\ startFromId = Len(doc) /\ doc[1].header = "" /\ doc[2].header = "alice"
  /\ Len(doc) = AuthorWalkLimit + 2
  /\ Len(Returned) >= 1
  /\ Returned[1].id = startFromId /\ Returned[1].username = "alice"

\* ------------------------------------------------------- the store over a run

\* C25: from the first scan of a run to its return every step leaves the records
\* already stored as they are and where they are, and puts the records it adds
\* after them in the order in which it met their items; and a scan pass that meets
\* only items that are stored invokes no extractor: it changes neither the store
\* nor the user cache nor the set of extracted ids.
C25_StoreOnlyGrows ==
  /\ [][pc # "collect" =>
          /\ Len(collectedMessages') >= Len(collectedMessages)
          /\ SubSeq(collectedMessages', 1, Len(collectedMessages)) = collectedMessages
          /\ \A i, j \in (Len(collectedMessages) + 1)..Len(collectedMessages') :
               i < j => collectedMessages'[i].key < collectedMessages'[j].key]_vars
  /\ [][(pc = "scan" /\ Mounted \subseteq IdSet(Returned)) =>
          /\ collectedMessages' = collectedMessages
          /\ userCache' = userCache
          /\ extracted' = extracted]_vars
  /\ [](\A i \in 1..Len(collectedMessages) :
          collectedMessages[i].key = collectedMessages[i].value.id)

\* a run has returned a first record without an author and a second of alice after
\* a later scan met both items again: the first record is as it was stored, although
\* an extraction now would name alice
C25_Witness ==
  /\ pc = "returned" /\ reseen
  /\ Len(Returned) >= 2
  /\ Returned[1].username = "" /\ Returned[2].username = "alice"
  /\ userCache.lastUsername = "alice"

\* ------------------------------------------------------ one run at a time

\* C26: while a run is suspended at a wait no second run is under way, and a
\* request that arrives then neither resets the user cache nor clears the image
\* cache of the run.
C26_OneRunAtATime ==
  /\ [](pc \in WaitPcs => second.pc \notin {"collecting", "rendering"})
  /\ [][(pc \in WaitPcs /\ second' # second) =>
          /\ userCache' = userCache
          /\ imageCache' = imageCache]_vars

\* the one case the flag covers: a panel request during a panel run is ignored
C26_PanelDuringPanelIgnored ==
  [][(pc \in WaitPcs /\ via = "panel" /\ second.pc = "none" /\ second'.pc # "none"
        /\ second'.entry = "panel") =>
       /\ second'.pc = "ignored"
       /\ userCache' = userCache /\ imageCache' = imageCache]_vars

\* ------------------------------------------- prefetched urls at render time

\* C27: when the render loop of a PDF pass runs, every url of the pass whose fetch
\* did not fail is in the image cache, however many urls the pass has.
C27_FetchedIsHit ==
  [](pc = "render" =>
       \A u \in PdfLookups(messages, options) :
         u \notin failedUrls => MapHas(imageCache, u))

\* the same for the passes with no more urls than the cache holds
C27_FetchedIsHitWithinCache ==
  /\ [](pc = "render" /\ Len(urlArray) <= MAX_IMAGE_CACHE_SIZE =>
          \A u \in PdfLookups(messages, options) :
            u \notin failedUrls => MapHas(imageCache, u))
  /\ [](pc = "done" /\ Len(urlArray) <= MAX_IMAGE_CACHE_SIZE =>
          \A i \in 1..Len(pdf) :
            ShownImages(i) = Cardinality(ImageUrlsOf(i) \ failedUrls))

\* a pass with one url more than the cache holds has ended without a failed fetch,
\* and its document lacks an image
C27_FetchedImageMissing ==
  /\ pc = "done" /\ failedUrls = {}
  /\ Len(urlArray) = MAX_IMAGE_CACHE_SIZE + 1
  /\ ShownImages(1) < Len(messages[1].images)
  /\ \A i \in 2..Len(pdf) : ShownImages(i) = Len(messages[i].images)

\* ------------------------------------------------- nothing after the end

\* C28: a run that met the end item returns no item that follows the end item in
\* document order, whether or not a start was supplied and observed.
C28_NothingAfterEnd ==
  [](pc = "returned" /\ foundEndMessage =>
       \A i \in 1..Len(Returned) : ~Following(endAtId, Returned[i].id))

\* the same for the runs that end without the sweep
C28_NothingAfterEndWithoutSweep ==
  [](pc = "returned" /\ foundEndMessage /\ (startFromId = NoId \/ foundStartMessage) =>
       \A i \in 1..Len(Returned) : ~Following(endAtId, Returned[i].id))

\* a run with a start it never observed has met the end item and returned an item
\* that follows it
C28_SweepPastEnd ==
  /\ pc = "returned" /\ foundEndMessage
  /\ startFromId # NoId /\ ~foundStartMessage /\ startFromId # endAtId
  /\ \E i \in 1..Len(Returned) : Following(endAtId, Returned[i].id)

\* ------------------------------------------- the author of a grouped item

\* the header-bearing items before k in document order
HeadersBefore(k) == {j \in 1..(k - 1) : doc[j].header # ""}
\* the author of the nearest of them, "" when there is none
NearestHeaderBefore(k) ==
  IF HeadersBefore(k) = {} THEN ""
  ELSE doc[CHOOSE j \in HeadersBefore(k) : \A i \in HeadersBefore(k) : i <= j].header

\* the items the run has enumerated or extracted are consecutive in the document
GapFree ==
  \A a \in scanned \cup extracted, b \in scanned \cup extracted :
    \A k \in a..b : k \in scanned \cup extracted

\* C29: a run whose items were met in document order without gaps returns every
\* item without a header of its own under the author of the nearest item before it
\* in the document that has a header.
C29_NearestHeaderAuthor ==
  [](pc = "returned" /\ GapFree =>
       \A i \in 1..Len(Returned) :
         doc[Returned[i].id].header = "" =>
           Returned[i].username = NearestHeaderBefore(Returned[i].id))

\* the same for the runs that end without the sweep and whose first extraction
\* was of an item with a header
C29_NearestHeaderAuthorAfterHeader ==
  [](pc = "returned" /\ GapFree /\ (startFromId = NoId \/ foundStartMessage)
       /\ extracted # {}
       /\ doc[CHOOSE a \in extracted : \A b \in extracted : a <= b].header # "" =>
       \A i \in 1..Len(Returned) :
         doc[Returned[i].id].header = "" =>
           Returned[i].username = NearestHeaderBefore(Returned[i].id))

\* a run has returned, after later scans met stored items again, an item without a
\* header under the author of the header before it
C29_GroupedAfterReseen ==
  /\ pc = "returned" /\ GapFree /\ reseen
  /\ \E i \in 1..Len(Returned) :
       /\ doc[Returned[i].id].header = ""
       /\ Returned[i].username = "alice"
       /\ Returned[i].id = Len(doc)

\* the sweep has stored an item without a header under the author of an item that
\* follows it
C29_SweepTakesLaterAuthor ==
  /\ pc = "returned" /\ GapFree
  /\ \E i \in 1..Len(Returned) :
       /\ HeadersBefore(Returned[i].id) = {}
       /\ doc[Returned[i].id].header = ""
       /\ Returned[i].username # ""

\* ------------------------------------------------ the end of every run

\* C30: every run that has begun ends with its completion notification, whatever
\* its caller and its outcome; the notification is sent once, it reports the result
\* of the run, and no progress notification follows it; and when the run has ended
\* the flag of startExport is down, so that the guard of a later request passes.
C30_OneCompletion ==
  /\ (pc # "idle") ~> (pc = "notified" /\ completion # <<>>)
  /\ [][completion' # completion =>
          /\ completion = <<>>
          /\ pc = "done" /\ pc' = "notified"
          /\ completion' = <<CompletionOf(result[1])>>]_vars
  /\ [][completion # <<>> => percent' = percent /\ completion' = completion]_vars
  /\ [](pc # "notified" => completion = <<>>)
  /\ [](pc = "notified" => ~isExporting)
  /\ [](isExporting => via = "panel" /\ pc \notin {"idle", "notified"})

\* a run started from the panel has failed, has sent its notification of the
\* failure, and the flag is down
C30_Witness ==
  /\ pc = "notified" /\ via = "panel"
  /\ completion # <<>> /\ ~completion[1].success
  /\ percent # <<>>
  /\ ~isExporting

\* a PDF run started from the popup has succeeded and sent its notification
C30_PopupSucceeded ==
  /\ pc = "notified" /\ via = "popup" /\ format = "pdf"
  /\ completion # <<>> /\ completion[1].success
  /\ response = <<result[1]>>

====
